---- MODULE Spec2Model ----
(***************************************************************************)
(* A model of the document-management server of this repository: the      *)
(* folder registry, the document registry, the activity ledger and the     *)
(* part of the identity store the handlers depend on.                      *)
(*                                                                         *)
(* JavaScript strings the code computes with (MIME types, file names,      *)
(* categories, document codes, paths, security codes) are sequences of     *)
(* one-character strings, so that includes, toUpperCase, replace, extname  *)
(* and padStart are computed as the code computes them.  Row ids, user ids *)
(* and ledger actions, which the code only compares, are TLA+ strings.     *)
(***************************************************************************)
EXTENDS Integers, Sequences, FiniteSets, TLC

VARIABLES
    users,      \* table users: id -> [role, isActive, lastActive]
    sessions,   \* the user ids that hold an authenticated session
    folders,    \* table folders: a set of rows
    docs,       \* table documents: a set of rows
    shares,     \* table document_shares: a set of rows
    log,        \* table activity_logs, in insertion order
    disk,       \* the paths of the files under the uploads directory
    nextFile,   \* the number multer puts into the next stored file's name
    now,        \* the clock (Date.now), in ticks
    pending,    \* the handlers suspended at an await: request slot -> position
    resp,       \* the response of the handler that completed last
    page        \* the client's folder page: the state of FolderPage in a browser

vars == <<users, sessions, folders, docs, shares, log, disk, nextFile, now, pending, resp,
          page>>

----------------------------------------------------------------------------
(* Bounds of the model *)

MaxFolders == 1
MaxDocs == 2
MaxLog == 3
MaxFiles == 3
MaxClock == 2
MaxShares == 1
MaxUsers == 4

----------------------------------------------------------------------------
(* JavaScript values *)

\* null and undefined among strings: one-element sequences no string equals
null == <<"null">>
undefined == <<"undefined">>

\* a nullable boolean column / JSON boolean
JTrue == "true"
JFalse == "false"
JNull == "null"
JUndefined == "undefined"

\* JavaScript truthiness of a string-or-null value (x || y, !x)
Truthy(v) == v # null /\ v # undefined /\ v # <<>>

\* JavaScript truthiness of a boolean-or-null value
TruthyBool(b) == b = JTrue

\* x || y
OrElse(x, y) == IF Truthy(x) THEN x ELSE y

LowerAlpha == <<"a","b","c","d","e","f","g","h","i","j","k","l","m",
                "n","o","p","q","r","s","t","u","v","w","x","y","z">>
UpperAlpha == <<"A","B","C","D","E","F","G","H","I","J","K","L","M",
                "N","O","P","Q","R","S","T","U","V","W","X","Y","Z">>

toUpperChar(c) ==
    IF \E i \in 1..Len(LowerAlpha) : LowerAlpha[i] = c
    THEN UpperAlpha[CHOOSE i \in 1..Len(LowerAlpha) : LowerAlpha[i] = c]
    ELSE c

toLowerChar(c) ==
    IF \E i \in 1..Len(UpperAlpha) : UpperAlpha[i] = c
    THEN LowerAlpha[CHOOSE i \in 1..Len(UpperAlpha) : UpperAlpha[i] = c]
    ELSE c

\* String.prototype.toUpperCase / toLowerCase
toUpperCase(s) == [i \in 1..Len(s) |-> toUpperChar(s[i])]
toLowerCase(s) == [i \in 1..Len(s) |-> toLowerChar(s[i])]

\* String.prototype.includes
includes(s, sub) ==
    \E i \in 0..(Len(s) - Len(sub)) : SubSeq(s, i + 1, i + Len(sub)) = sub

\* String.prototype.startsWith
startsWith(s, pre) == Len(s) >= Len(pre) /\ SubSeq(s, 1, Len(pre)) = pre

\* String.prototype.replace with a one-character string pattern: the first
\* occurrence only
replace(s, a, b) ==
    IF \E i \in 1..Len(s) : s[i] = a
    THEN LET k == CHOOSE i \in 1..Len(s) : s[i] = a /\ \A j \in 1..(i - 1) : s[j] # a
         IN  SubSeq(s, 1, k - 1) \o b \o SubSeq(s, k + 1, Len(s))
    ELSE s

\* String.prototype.substring(1)
substring1(s) == SubSeq(s, 2, Len(s))

\* path.extname of a file name without directories: from the last dot, unless
\* there is none or it is the first character
extname(p) ==
    IF \E i \in 2..Len(p) : p[i] = "."
    THEN LET k == CHOOSE i \in 2..Len(p) : p[i] = "." /\ \A j \in (i + 1)..Len(p) : p[j] # "."
         IN  SubSeq(p, k, Len(p))
    ELSE <<>>

\* String.prototype.replace(/\.[^/.]+$/, ""): drop a last dot that is followed
\* by one character or more, none of them a slash
removeExtension(s) ==
    IF \E i \in 1..(Len(s) - 1) :
          s[i] = "." /\ \A j \in (i + 1)..Len(s) : s[j] \notin {".", "/"}
    THEN LET k == CHOOSE i \in 1..(Len(s) - 1) :
                     s[i] = "." /\ \A j \in (i + 1)..Len(s) : s[j] \notin {".", "/"}
         IN  SubSeq(s, 1, k - 1)
    ELSE s

Digits == <<"0","1","2","3","4","5","6","7","8","9">>

\* Number.prototype.toString of a natural number
RECURSIVE toString(_)
toString(n) ==
    IF n < 10 THEN <<Digits[n + 1]>>
    ELSE toString(n \div 10) \o <<Digits[(n % 10) + 1]>>

\* String.prototype.padStart(len, ch)
RECURSIVE padStart(_, _, _)
padStart(s, len, ch) == IF Len(s) >= len THEN s ELSE padStart(<<ch>> \o s, len, ch)

----------------------------------------------------------------------------
(* String literals of the source *)

S_pdf == <<"p","d","f">>
S_word == <<"w","o","r","d">>
S_excel == <<"e","x","c","e","l">>
S_spreadsheet == <<"s","p","r","e","a","d","s","h","e","e","t">>
S_powerpoint == <<"p","o","w","e","r","p","o","i","n","t">>
S_presentation == <<"p","r","e","s","e","n","t","a","t","i","o","n">>
S_unknown == <<"u","n","k","n","o","w","n">>
S_memos == <<"m","e","m","o","s">>
S_templates == <<"t","e","m","p","l","a","t","e","s","/">>
S_uploads == <<"u","p","l","o","a","d","s","/">>

MimePdf == <<"a","p","p","l","i","c","a","t","i","o","n","/","p","d","f">>
MimeDoc == <<"a","p","p","l","i","c","a","t","i","o","n","/","m","s","w","o","r","d">>
MimeDocx == <<"a","p","p","l","i","c","a","t","i","o","n","/","v","n","d",".","o","p","e","n","x","m","l","f","o","r","m","a","t","s","-","o","f","f","i","c","e","d","o","c","u","m","e","n","t",".","w","o","r","d","p","r","o","c","e","s","s","i","n","g","m","l",".","d","o","c","u","m","e","n","t">>
MimeXls == <<"a","p","p","l","i","c","a","t","i","o","n","/","v","n","d",".","m","s","-","e","x","c","e","l">>
MimeXlsx == <<"a","p","p","l","i","c","a","t","i","o","n","/","v","n","d",".","o","p","e","n","x","m","l","f","o","r","m","a","t","s","-","o","f","f","i","c","e","d","o","c","u","m","e","n","t",".","s","p","r","e","a","d","s","h","e","e","t","m","l",".","s","h","e","e","t">>
MimePpt == <<"a","p","p","l","i","c","a","t","i","o","n","/","v","n","d",".","m","s","-","p","o","w","e","r","p","o","i","n","t">>
MimePptx == <<"a","p","p","l","i","c","a","t","i","o","n","/","v","n","d",".","o","p","e","n","x","m","l","f","o","r","m","a","t","s","-","o","f","f","i","c","e","d","o","c","u","m","e","n","t",".","p","r","e","s","e","n","t","a","t","i","o","n","m","l",".","p","r","e","s","e","n","t","a","t","i","o","n">>

\* multer fileFilter: the allow-list of MIME types
allowedMimes == {MimePdf, MimeDoc, MimeDocx, MimeXls, MimeXlsx, MimePpt, MimePptx}

\* multer limits.fileSize, in MiB
fileSizeLimitMiB == 50

\* the fileType values named by the data model
FileTypes == {S_pdf, S_word, S_excel, S_powerpoint, S_unknown}

----------------------------------------------------------------------------
(* Row ids *)

UserId(n) == <<"user", n>>
FolderId(n) == <<"folder", n>>
DocId(n) == <<"doc", n>>
NoId == <<"none", 0>>

Admin == UserId(1)
Clerk == UserId(2)
UserIds == {Admin, Clerk}

\* the slots of handlers that can be suspended at an await at the same time
Reqs == {1, 2}

NoDoc == [id |-> NoId]
NoFile == [originalname |-> <<>>, mimetype |-> <<>>, size |-> 0]
Idle == [pc |-> "idle"]

----------------------------------------------------------------------------
(* Table reads *)

\* storage.getUserByLoginCode: the ids of the rows with that login code
getUserByLoginCode(code) == {id \in DOMAIN users : users[id].loginCode = code}

\* storage.getFolder / storage.getDocument: the rows with that id (none or one)
getFolder(id) == {f \in folders : f.id = id}
getDocument(id) == {d \in docs : d.id = id}

\* a query that returns nothing for a folder that has a security code
getFolderDocumentsOfOpenFolder(folderId) ==
    {d \in docs : d.folderId = folderId
                    /\ \A f \in getFolder(folderId) : ~TruthyBool(f.hasSecurityCode)}

\* storage.getFolderDocuments
getFolderDocuments(folderId) == {d \in docs : d.folderId = folderId}

\* a count that reserves the numbers of the creations in flight
getDocumentCountReserving(documentType) ==
    Cardinality({d \in docs : d.category = documentType})
      + Cardinality({r \in DOMAIN pending : pending[r].pc = "create"
                                             /\ pending[r].documentType = documentType})

\* storage.getDocumentCount
getDocumentCount(documentType) == Cardinality({d \in docs : d.category = documentType})

\* the id the database gives the next row of a table
NextFolderId == FolderId(Cardinality(folders))
NextDocId == DocId(Cardinality(docs) + 1)

\* a session that ends when its user is switched off
isAuthenticatedWhileActive(u) == u \in sessions /\ users[u].isActive

\* req.isAuthenticated()
isAuthenticated(u) == u \in sessions

\* new Date().getFullYear()
BaseYear == 2025
TicksPerYear == 2
getFullYear(t) == BaseYear + (t \div TicksPerYear)

----------------------------------------------------------------------------
(* The activity ledger *)

LogRow(userId, action, resourceType, resourceId) ==
    [userId |-> userId, action |-> action, resourceType |-> resourceType,
     resourceId |-> resourceId]

\* a ledger that keeps its two newest rows and drops the oldest
createActivityLogRotating(l, row) ==
    IF Len(l) >= 2 THEN Append(Tail(l), row) ELSE Append(l, row)

\* storage.createActivityLog: one INSERT into activity_logs
createActivityLog(l, row) == Append(l, row)

\* the response of a handler
Respond(op, status, user, target, doc, before, list, logFailed) ==
    [tick |-> ~resp.tick, op |-> op, status |-> status, user |-> user,
     target |-> target, arg |-> null, doc |-> doc, before |-> before,
     list |-> list, logFailed |-> logFailed, file |-> NoFile]

Reply(op, status, user, target) ==
    Respond(op, status, user, target, NoDoc, NoDoc, {}, FALSE)

----------------------------------------------------------------------------
(* The state after initializeDatabase, one ordinary user registered *)

InitUsers ==
    (Admin :> [loginCode |-> "ADMIN-2025", role |-> "super_admin",
               isActive |-> TRUE, lastActive |-> -1]) @@
    (Clerk :> [loginCode |-> "ZT-A1B-2C3", role |-> "user",
               isActive |-> TRUE, lastActive |-> -1])

InitFolders ==
    {[id |-> FolderId(0), hasSecurityCode |-> JFalse, securityCode |-> null,
      createdBy |-> Admin]}

\* no folder page is open
NoPage ==
    [mounted |-> FALSE, folderId |-> NoId, hasSecurityCode |-> JUndefined,
     isAccessVerified |-> FALSE, showSecurityDialog |-> FALSE,
     securityCode |-> <<>>, verifying |-> FALSE, creating |-> FALSE,
     sentAt |-> FALSE, verifyCalls |-> {}, verified |-> {},
     documentsRequests |-> <<>>]

InitCommon ==
    /\ users = InitUsers
    /\ folders = InitFolders
    /\ docs = {}
    /\ shares = {}
    /\ log = <<>>
    /\ disk = {}
    /\ nextFile = 0
    /\ now = 0
    /\ pending = [r \in Reqs |-> Idle]
    /\ page = NoPage
    /\ resp = [tick |-> FALSE, op |-> "none", status |-> 0, user |-> NoId,
               target |-> NoId, arg |-> null, doc |-> NoDoc, before |-> NoDoc,
               list |-> {}, logFailed |-> FALSE, file |-> NoFile]

----------------------------------------------------------------------------
(* Identity: POST /api/login, POST /api/logout, PATCH /api/admin/users/:id *)

\* a verify callback that does not look at isActive
verifyLoginCodeOfAnyUser(code) == getUserByLoginCode(code)

\* LocalStrategy verify callback: the user of the code, unless there is none
\* or the user is not active
verifyLoginCode(code) == {id \in getUserByLoginCode(code) : users[id].isActive}

\* a login that records the attempts made with the code of a known user
LoginRecordingAttempts(code) ==
    LET found == verifyLoginCode(code)
        ok == found # {}
        answer(status, id) == [Reply("login", status, id, NoId) EXCEPT !.arg = <<code>>]
    IN  /\ ok => Len(log) < MaxLog
        /\ UNCHANGED <<page, folders, docs, shares, disk, nextFile, now, pending>>
        /\ IF ~ok
           THEN /\ resp' = answer(401, NoId)
                /\ users' = [id \in DOMAIN users |->
                                IF id \in getUserByLoginCode(code)
                                THEN [users[id] EXCEPT !.lastActive = now]
                                ELSE users[id]]
                /\ UNCHANGED <<sessions, log>>
           ELSE LET id == CHOOSE id \in found : TRUE
                IN  /\ sessions' = sessions \cup {id}
                    /\ users' = [users EXCEPT ![id].lastActive = now]
                    /\ log' = createActivityLog(log, LogRow(id, "login", "system", NoId))
                    /\ resp' = answer(200, id)

\* POST /api/login: the verify callback, then req.logIn, updateUserLastActive and
\* the ledger row.  resp.arg carries the code the request supplied.
Login(code) ==
    LET found == verifyLoginCode(code)
        ok == found # {}
        answer(status, id) == [Reply("login", status, id, NoId) EXCEPT !.arg = <<code>>]
    IN  /\ ok => Len(log) < MaxLog
        /\ UNCHANGED <<page, folders, docs, shares, disk, nextFile, now, pending>>
        /\ IF ~ok
           THEN /\ resp' = answer(401, NoId)
                /\ UNCHANGED <<users, sessions, log>>
           ELSE LET id == CHOOSE id \in found : TRUE
                IN  /\ sessions' = sessions \cup {id}
                    /\ users' = [users EXCEPT ![id].lastActive = now]
                    /\ log' = createActivityLog(log, LogRow(id, "login", "system", NoId))
                    /\ resp' = answer(200, id)

\* req.logout, then the ledger row when the request carried a user
Logout(u) ==
    /\ isAuthenticated(u) => Len(log) < MaxLog
    /\ UNCHANGED <<page, users, folders, docs, shares, disk, nextFile, now, pending>>
    /\ sessions' = sessions \ {u}
    /\ log' = IF isAuthenticated(u)
              THEN createActivityLog(log, LogRow(u, "logout", "system", NoId))
              ELSE log
    /\ resp' = Reply("logout", 200, IF isAuthenticated(u) THEN u ELSE NoId, NoId)

\* req.user: the user of the request's session, if it has one
SessionUser(u) == IF isAuthenticated(u) THEN u ELSE NoId

\* a guard that asks for a session only
isSignedIn(u) == isAuthenticated(u)

\* requireSuperAdmin
isSuperAdmin(u) == isAuthenticated(u) /\ users[u].role = "super_admin"

\* storage.updateUser: SET of the fields that are not undefined
updateUser(row, isActive, role) ==
    [row EXCEPT !.isActive = IF isActive = JUndefined THEN @ ELSE isActive = JTrue,
                !.role = IF role = JUndefined THEN @ ELSE role]

AdminUpdateUser(u, target, isActive, role, logOk) ==
    LET values == isActive # JUndefined \/ role # JUndefined
        writes == isSuperAdmin(u) /\ values /\ target \in DOMAIN users
    IN  /\ writes => Len(log) < MaxLog
        /\ UNCHANGED <<page, sessions, folders, docs, shares, disk, nextFile, now, pending>>
        /\ IF ~isSuperAdmin(u)
           THEN /\ resp' = Reply("adminUpdate", 403, SessionUser(u), NoId)
                /\ UNCHANGED <<users, log>>
           ELSE IF ~values
           THEN \* drizzle refuses an UPDATE without values
                /\ resp' = Reply("adminUpdate", 500, u, target)
                /\ UNCHANGED <<users, log>>
           ELSE IF target \notin DOMAIN users
           THEN /\ resp' = Reply("adminUpdate", 404, u, target)
                /\ UNCHANGED <<users, log>>
           ELSE /\ users' = [users EXCEPT ![target] = updateUser(@, isActive, role)]
                /\ log' = IF logOk
                          THEN createActivityLog(log, LogRow(u, "update_user", "user", target))
                          ELSE log
                /\ resp' = IF logOk
                           THEN Reply("adminUpdate", 200, u, target)
                           ELSE Respond("adminUpdate", 500, u, target, NoDoc, NoDoc, {}, TRUE)

----------------------------------------------------------------------------
(* Identity: POST /api/register, GET /api/admin/users,
   GET /api/admin/activity-logs *)

\* generateLoginCode: the number of candidates it checks
maxAttempts == 10

\* role: role || "user"
roleOrDefault(role) == IF role \in {JUndefined, JNull, ""} THEN "user" ELSE role

NextUserId == UserId(Cardinality(DOMAIN users) + 1)

\* POST /api/register, to the first await of generateLoginCode: the session
\* and the role of its user are checked
RegisterBegin(r, u, name, role) ==
    /\ pending[r] = Idle
    /\ UNCHANGED <<page, users, sessions, folders, docs, shares, log, disk, nextFile, now>>
    /\ IF ~isAuthenticated(u)
       THEN resp' = Reply("register", 401, NoId, NoId) /\ UNCHANGED pending
       ELSE IF users[u].role # "super_admin"
       THEN resp' = Reply("register", 403, u, NoId) /\ UNCHANGED pending
       ELSE /\ pending' = [pending EXCEPT ![r] =
                   [pc |-> "generate", user |-> u, name |-> name, role |-> role,
                    attempts |-> 0]]
            /\ UNCHANGED resp

\* a loop that returns its candidate whether or not a user holds it
RegisterCheckOfAnyCandidate(r, code) ==
    LET q == pending[r]
    IN  /\ q.pc = "generate"
        /\ q.attempts < maxAttempts
        /\ UNCHANGED <<page, users, sessions, folders, docs, shares, log, disk, nextFile, now,
                       resp>>
        /\ pending' = [pending EXCEPT ![r] =
               [pc |-> "insert", user |-> q.user, name |-> q.name,
                role |-> q.role, loginCode |-> code]]

\* generateLoginCode, one turn of its loop: a random candidate is looked up
\* and returned if no user holds it
RegisterCheck(r, code) ==
    LET q == pending[r]
    IN  /\ q.pc = "generate"
        /\ q.attempts < maxAttempts
        /\ UNCHANGED <<page, users, sessions, folders, docs, shares, log, disk, nextFile, now,
                       resp>>
        /\ pending' = [pending EXCEPT ![r] =
               IF getUserByLoginCode(code) = {}
               THEN [pc |-> "insert", user |-> q.user, name |-> q.name,
                     role |-> q.role, loginCode |-> code]
               ELSE [q EXCEPT !.attempts = @ + 1]]

\* generateLoginCode after its loop: the code made of a UUID is returned
\* without a lookup
RegisterFallback(r, code) ==
    LET q == pending[r]
    IN  /\ q.pc = "generate"
        /\ q.attempts >= maxAttempts
        /\ UNCHANGED <<page, users, sessions, folders, docs, shares, log, disk, nextFile, now,
                       resp>>
        /\ pending' = [pending EXCEPT ![r] =
               [pc |-> "insert", user |-> q.user, name |-> q.name,
                role |-> q.role, loginCode |-> code]]

\* a users table without the UNIQUE constraint on login_code
createUserAcceptsAnyCode(name, loginCode) == name # undefined /\ name # null

\* storage.createUser: the INSERT refuses a missing name (NOT NULL) and a
\* login code some user holds (UNIQUE)
createUserAccepts(name, loginCode) ==
    name # undefined /\ name # null /\ getUserByLoginCode(loginCode) = {}

\* a users table whose is_active column defaults to 0
createUserInactive(loginCode, role) ==
    [loginCode |-> loginCode, role |-> role, isActive |-> FALSE, lastActive |-> -1]

\* storage.createUser: the row inserted, with the column defaults
createUser(loginCode, role) ==
    [loginCode |-> loginCode, role |-> role, isActive |-> TRUE, lastActive |-> -1]

\* POST /api/register, from createUser to the response.  resp.arg carries
\* the login code generated for the request.
RegisterInsert(r, logOk) ==
    LET q == pending[r]
        id == NextUserId
        accepted == createUserAccepts(q.name, q.loginCode)
        user == createUser(q.loginCode, roleOrDefault(q.role))
    IN  /\ q.pc = "insert"
        /\ accepted => (Cardinality(DOMAIN users) < MaxUsers /\ Len(log) < MaxLog)
        /\ UNCHANGED <<page, sessions, folders, docs, shares, disk, nextFile, now>>
        /\ pending' = [pending EXCEPT ![r] = Idle]
        /\ IF ~accepted
           THEN /\ resp' = [Reply("register", 400, q.user, NoId)
                              EXCEPT !.arg = <<q.loginCode>>]
                /\ UNCHANGED <<users, log>>
           ELSE /\ users' = users @@ (id :> user)
                /\ log' = IF logOk
                          THEN createActivityLog(log, LogRow(q.user, "create_user", "user", id))
                          ELSE log
                /\ resp' = IF logOk
                           THEN [Reply("register", 201, q.user, id)
                                   EXCEPT !.arg = <<q.loginCode>>]
                           ELSE Respond("register", 400, q.user, id, NoDoc, NoDoc, {}, TRUE)

\* a listing of the users that every signed-in user may ask for
AdminListUsersForAnySession(u) ==
    /\ UNCHANGED <<page, users, sessions, folders, docs, shares, log, disk, nextFile, now, pending>>
    /\ resp' = IF ~isAuthenticated(u)
               THEN Reply("adminUsers", 403, SessionUser(u), NoId)
               ELSE Respond("adminUsers", 200, u, NoId, NoDoc, NoDoc, DOMAIN users, FALSE)

\* GET /api/admin/users.  resp.list is the set of the users returned.
AdminListUsers(u) ==
    /\ UNCHANGED <<page, users, sessions, folders, docs, shares, log, disk, nextFile, now, pending>>
    /\ resp' = IF ~isSuperAdmin(u)
               THEN Reply("adminUsers", 403, SessionUser(u), NoId)
               ELSE Respond("adminUsers", 200, u, NoId, NoDoc, NoDoc, DOMAIN users, FALSE)

\* storage.getActivityLogs: the newest rows first, at most limit of them
getActivityLogs(limit) ==
    LET n == IF Len(log) < limit THEN Len(log) ELSE limit
    IN  [i \in 1..n |-> log[Len(log) + 1 - i]]

\* GET /api/admin/activity-logs.  resp.list is the sequence of rows returned.
AdminActivityLogs(u, limit) ==
    /\ UNCHANGED <<page, users, sessions, folders, docs, shares, log, disk, nextFile, now, pending>>
    /\ resp' = IF ~isSuperAdmin(u)
               THEN Reply("adminLogs", 403, SessionUser(u), NoId)
               ELSE Respond("adminLogs", 200, u, NoId, NoDoc, NoDoc,
                            getActivityLogs(limit), FALSE)

----------------------------------------------------------------------------
(* Folder registry *)

\* insertFolderSchema.parse: name is required; description, securityCode and
\* hasSecurityCode are optional and nullable
insertFolderSchema(name, hasSecurityCode, securityCode) == name # undefined /\ name # null

\* storage.createFolder: the INSERT, with the column defaults
createFolder(id, hasSecurityCode, securityCode, createdBy) ==
    [id |-> id,
     hasSecurityCode |-> IF hasSecurityCode = JUndefined THEN JFalse ELSE hasSecurityCode,
     securityCode |-> IF securityCode = undefined THEN null ELSE securityCode,
     createdBy |-> createdBy]

\* POST /api/folders
CreateFolder(u, name, hasSecurityCode, securityCode, logOk) ==
    LET valid == insertFolderSchema(name, hasSecurityCode, securityCode)
        folder == createFolder(NextFolderId, hasSecurityCode, securityCode, u)
    IN  /\ (isAuthenticated(u) /\ valid) =>
               (Len(log) < MaxLog /\ Cardinality(folders) <= MaxFolders)
        /\ UNCHANGED <<page, users, sessions, docs, shares, disk, nextFile, now, pending>>
        /\ IF ~isAuthenticated(u)
           THEN /\ resp' = Reply("createFolder", 401, NoId, NoId)
                /\ UNCHANGED <<folders, log>>
           ELSE IF ~valid
           THEN /\ resp' = Reply("createFolder", 500, u, NoId)
                /\ UNCHANGED <<folders, log>>
           ELSE /\ folders' = folders \cup {folder}
                /\ log' = IF logOk
                          THEN createActivityLog(log, LogRow(u, "create", "folder", folder.id))
                          ELSE log
                /\ resp' = IF logOk
                           THEN Reply("createFolder", 201, u, folder.id)
                           ELSE Respond("createFolder", 500, u, folder.id, NoDoc, NoDoc, {}, TRUE)

\* a comparison that ignores the case of the letters
verifyFolderAccessIgnoringCase(folder, securityCode) ==
    IF ~TruthyBool(folder.hasSecurityCode) THEN TRUE
    ELSE toLowerCase(folder.securityCode) = toLowerCase(securityCode)

\* the comparison of POST /api/folders/:id/verify-access and of
\* storage.verifyFolderAccess
verifyFolderAccess(folder, securityCode) ==
    IF ~TruthyBool(folder.hasSecurityCode) THEN TRUE
    ELSE folder.securityCode = securityCode

\* a verify-access that remembers a granted access by opening the folder
VerifyAccessRememberingAccess(u, folderId, securityCode, logOk) ==
    LET found == getFolder(folderId)
        folder == CHOOSE f \in found : TRUE
        logs == isAuthenticated(u) /\ found # {} /\ TruthyBool(folder.hasSecurityCode)
                    /\ verifyFolderAccess(folder, securityCode)
        answer(status) == [Reply("verify", status, u, folderId) EXCEPT !.arg = securityCode]
    IN  /\ logs => Len(log) < MaxLog
        /\ UNCHANGED <<page, users, sessions, docs, shares, disk, nextFile, now, pending>>
        /\ IF ~isAuthenticated(u)
           THEN resp' = Reply("verify", 401, NoId, NoId) /\ UNCHANGED <<folders, log>>
           ELSE IF found = {}
           THEN resp' = answer(404) /\ UNCHANGED <<folders, log>>
           ELSE IF ~TruthyBool(folder.hasSecurityCode)
           THEN resp' = answer(200) /\ UNCHANGED <<folders, log>>
           ELSE IF ~verifyFolderAccess(folder, securityCode)
           THEN resp' = answer(401) /\ UNCHANGED <<folders, log>>
           ELSE /\ folders' = (folders \ {folder}) \cup
                                  {[folder EXCEPT !.hasSecurityCode = JFalse]}
                /\ log' = IF logOk
                          THEN createActivityLog(log, LogRow(u, "access", "folder", folderId))
                          ELSE log
                /\ resp' = IF logOk
                           THEN answer(200)
                           ELSE [answer(500) EXCEPT !.logFailed = TRUE]

\* POST /api/folders/:id/verify-access.  resp.arg is the code the request
\* supplied.
VerifyAccess(u, folderId, securityCode, logOk) ==
    LET found == getFolder(folderId)
        folder == CHOOSE f \in found : TRUE
        logs == isAuthenticated(u) /\ found # {} /\ TruthyBool(folder.hasSecurityCode)
                    /\ verifyFolderAccess(folder, securityCode)
        answer(status) == [Reply("verify", status, u, folderId) EXCEPT !.arg = securityCode]
    IN  /\ logs => Len(log) < MaxLog
        /\ UNCHANGED <<page, users, sessions, folders, docs, shares, disk, nextFile, now, pending>>
        /\ IF ~isAuthenticated(u)
           THEN resp' = Reply("verify", 401, NoId, NoId) /\ UNCHANGED log
           ELSE IF found = {}
           THEN resp' = answer(404) /\ UNCHANGED log
           ELSE IF ~TruthyBool(folder.hasSecurityCode)
           THEN resp' = answer(200) /\ UNCHANGED log
           ELSE IF ~verifyFolderAccess(folder, securityCode)
           THEN resp' = answer(401) /\ UNCHANGED log
           ELSE /\ log' = IF logOk
                          THEN createActivityLog(log, LogRow(u, "access", "folder", folderId))
                          ELSE log
                /\ resp' = IF logOk
                           THEN answer(200)
                           ELSE [answer(500) EXCEPT !.logFailed = TRUE]

\* GET /api/folders/:id/documents
ListFolderDocuments(u, folderId) ==
    /\ UNCHANGED <<page, users, sessions, folders, docs, shares, log, disk, nextFile, now, pending>>
    /\ resp' = IF ~isAuthenticated(u)
               THEN Reply("list", 401, NoId, NoId)
               ELSE Respond("list", 200, u, folderId, NoDoc, NoDoc,
                            getFolderDocuments(folderId), FALSE)

----------------------------------------------------------------------------
(* Document registry: upload *)

\* the content of a document as the handlers read it: content.title,
\* content.body, content.cells (the pairs of a cell and its value, in the
\* order of insertion; none when there are no cells) and content.slides
Content(title, slides) ==
    [isNull |-> FALSE, title |-> title, body |-> undefined, cells |-> <<>>,
     slides |-> slides]
NullContent ==
    [isNull |-> TRUE, title |-> undefined, body |-> undefined, cells |-> <<>>,
     slides |-> [kind |-> "undefined", items |-> <<>>]]

\* the values of content.slides: undefined, an array of slides (their titles),
\* or a string
UndefinedSlides == [kind |-> "undefined", items |-> <<>>]
Slides(titles) == [kind |-> "array", items |-> titles]
StringSlides == [kind |-> "string", items |-> <<>>]

\* multer: fileFilter and limits.fileSize (file sizes are in MiB)
\* a filter that lets every type through
fileFilterOfAnyType(file) == TRUE
fileFilter(file) == file.mimetype \in allowedMimes
withinLimit(file) == file.size <= fileSizeLimitMiB

\* the status with which the application's error handler answers an upload
\* that multer rejected (a validation error)
uploadRejectedStatus == 400

\* multer diskStorage filename: a unique number and the original extension
storedPath(file) == S_uploads \o toString(nextFile) \o extname(file.originalname)

\* a classification that knows Excel and PowerPoint by their product names only
getFileTypeByProductName(mimetype) ==
    IF includes(mimetype, S_pdf) THEN S_pdf
    ELSE IF includes(mimetype, S_word) THEN S_word
    ELSE IF includes(mimetype, S_excel) THEN S_excel
    ELSE IF includes(mimetype, S_powerpoint) THEN S_powerpoint
    ELSE S_unknown

\* getFileType of POST /api/documents/upload
getFileType(mimetype) ==
    IF includes(mimetype, S_pdf) THEN S_pdf
    ELSE IF includes(mimetype, S_word) THEN S_word
    ELSE IF includes(mimetype, S_excel) \/ includes(mimetype, S_spreadsheet) THEN S_excel
    ELSE IF includes(mimetype, S_powerpoint) \/ includes(mimetype, S_presentation)
    THEN S_powerpoint
    ELSE S_unknown

\* the folder_id foreign key of table documents
folderKeyHolds(folderId) == folderId = NoId \/ getFolder(folderId) # {}

\* storage.createDocument: the INSERT and the row it returns
createDocument(document) == docs \cup {document}

\* POST /api/documents/upload
Upload(u, file, category, customName, folderId, logOk) ==
    LET stored == isAuthenticated(u) /\ fileFilter(file) /\ withinLimit(file)
        path == storedPath(file)
        document == [id |-> NextDocId,
                     name |-> OrElse(customName, file.originalname),
                     originalName |-> file.originalname,
                     category |-> OrElse(category, S_memos),
                     fileType |-> getFileType(file.mimetype),
                     fileSize |-> file.size,
                     filePath |-> path,
                     folderId |-> folderId,
                     uploadedBy |-> u,
                     createdAt |-> now,
                     updatedAt |-> now,
                     documentCode |-> null,
                     content |-> NullContent]
        answer(status, user, target, doc, logFailed) ==
            [Respond("upload", status, user, target, doc, NoDoc, {}, logFailed)
                EXCEPT !.file = file]
    IN  /\ stored => (nextFile < MaxFiles /\ Cardinality(docs) < MaxDocs /\ Len(log) < MaxLog)
        /\ UNCHANGED <<page, users, sessions, folders, shares, now, pending>>
        /\ IF ~isAuthenticated(u)
           THEN /\ resp' = answer(401, NoId, NoId, NoDoc, FALSE)
                /\ UNCHANGED <<docs, log, disk, nextFile>>
           ELSE IF ~stored
           THEN \* multer hands the error to the application's error handler
                /\ resp' = answer(uploadRejectedStatus, u, NoId, NoDoc, FALSE)
                /\ UNCHANGED <<docs, log, disk, nextFile>>
           ELSE /\ disk' = disk \cup {path}
                /\ nextFile' = nextFile + 1
                /\ IF ~folderKeyHolds(folderId)
                   THEN /\ resp' = answer(500, u, NoId, NoDoc, FALSE)
                        /\ UNCHANGED <<docs, log>>
                   ELSE /\ docs' = createDocument(document)
                        /\ log' = IF logOk
                                  THEN createActivityLog(log,
                                         LogRow(u, "upload", "document", document.id))
                                  ELSE log
                        /\ resp' = IF logOk
                                   THEN answer(201, u, document.id, document, FALSE)
                                   ELSE answer(500, u, document.id, NoDoc, TRUE)

----------------------------------------------------------------------------
(* Document registry: download *)

S_NA == <<"N","/","A">>
S_null == <<"n","u","l","l">>
S_Title == <<"T","i","t","l","e",":"," ">>
NL == <<"\n">>

RECURSIVE slideLines(_)
\* the lines generateDocumentContent writes for the slides: their titles
slideLines(titles) ==
    IF titles = <<>> THEN <<>>
    ELSE Head(titles) \o NL \o slideLines(Tail(titles))

RECURSIVE cellLines(_)
\* the lines generateDocumentContent writes for the cells
cellLines(cells) ==
    IF cells = <<>> THEN <<>>
    ELSE Head(cells)[1] \o <<":"," ">> \o Head(cells)[2] \o NL \o cellLines(Tail(cells))

\* generateDocumentContent: the header with the document's name, code and
\* category, the text of content.title, content.body, the cells and the
\* slides, and the footer (the dates of the header and footer are left out);
\* forEach of content.slides throws when the slides are a string
generateDocumentContent(document) ==
    LET category == toUpperCase(replace(document.category, "_", <<" ">>))
        content == document.content
        header == document.name \o NL \o OrElse(document.documentCode, S_NA) \o NL
                    \o category \o NL
        title == IF ~content.isNull /\ Truthy(content.title)
                 THEN S_Title \o content.title \o NL
                 ELSE <<>>
        body == IF ~content.isNull /\ Truthy(content.body)
                THEN content.body \o NL
                ELSE <<>>
        cells == IF content.isNull THEN <<>> ELSE cellLines(content.cells)
        slides == IF ~content.isNull /\ content.slides.kind = "array"
                  THEN slideLines(content.slides.items)
                  ELSE <<>>
        footer == category \o NL
                    \o (IF document.documentCode = null THEN S_null
                        ELSE document.documentCode)
    IN  [throws |-> ~content.isNull /\ content.slides.kind = "string",
         text |-> header \o title \o body \o cells \o slides \o footer]

\* a download that does not ask whether the file exists
DownloadWithoutAccessCheck(u, id, logOk) ==
    LET found == getDocument(id)
        document == CHOOSE d \in found : TRUE
        fileExists == TRUE
        generated == ~fileExists /\ startsWith(document.filePath, S_templates)
        content == generateDocumentContent(document)
        served == isAuthenticated(u) /\ found # {}
                    /\ (fileExists \/ (generated /\ ~content.throws))
    IN  /\ served => Len(log) < MaxLog
        /\ UNCHANGED <<page, users, sessions, folders, docs, shares, disk, nextFile, now, pending>>
        /\ IF ~isAuthenticated(u)
           THEN resp' = Reply("download", 401, NoId, NoId) /\ UNCHANGED log
           ELSE IF found = {}
           THEN resp' = Reply("download", 404, u, id) /\ UNCHANGED log
           ELSE IF ~fileExists /\ ~generated
           THEN resp' = Reply("download", 404, u, id) /\ UNCHANGED log
           ELSE IF generated /\ content.throws
           THEN \* the TypeError is caught by the handler
                resp' = Reply("download", 500, u, id) /\ UNCHANGED log
           ELSE /\ log' = IF logOk
                          THEN createActivityLog(log, LogRow(u, "download", "document", id))
                          ELSE log
                /\ resp' = IF logOk
                           THEN [Respond("download", 200, u, id, document, NoDoc, {}, FALSE)
                                   EXCEPT !.arg = IF generated THEN content.text ELSE null]
                           ELSE Respond("download", 500, u, id, NoDoc, NoDoc, {}, TRUE)

\* GET /api/documents/:id/download.  resp.doc is the document whose bytes or
\* generated content the response carries, resp.arg the generated content.
Download(u, id, logOk) ==
    LET found == getDocument(id)
        document == CHOOSE d \in found : TRUE
        fileExists == document.filePath \in disk
        generated == ~fileExists /\ startsWith(document.filePath, S_templates)
        content == generateDocumentContent(document)
        served == isAuthenticated(u) /\ found # {}
                    /\ (fileExists \/ (generated /\ ~content.throws))
    IN  /\ served => Len(log) < MaxLog
        /\ UNCHANGED <<page, users, sessions, folders, docs, shares, disk, nextFile, now, pending>>
        /\ IF ~isAuthenticated(u)
           THEN resp' = Reply("download", 401, NoId, NoId) /\ UNCHANGED log
           ELSE IF found = {}
           THEN resp' = Reply("download", 404, u, id) /\ UNCHANGED log
           ELSE IF ~fileExists /\ ~generated
           THEN resp' = Reply("download", 404, u, id) /\ UNCHANGED log
           ELSE IF generated /\ content.throws
           THEN \* the TypeError is caught by the handler
                resp' = Reply("download", 500, u, id) /\ UNCHANGED log
           ELSE /\ log' = IF logOk
                          THEN createActivityLog(log, LogRow(u, "download", "document", id))
                          ELSE log
                /\ resp' = IF logOk
                           THEN [Respond("download", 200, u, id, document, NoDoc, {}, FALSE)
                                   EXCEPT !.arg = IF generated THEN content.text ELSE null]
                           ELSE Respond("download", 500, u, id, NoDoc, NoDoc, {}, TRUE)

\* storage.updateDocumentContent: SET content and updatedAt, for a content
\* that is an object or null
updateDocumentContent(row, content) ==
    [row EXCEPT !.content = content, !.updatedAt = now]

\* PUT /api/documents/:id/content
UpdateContent(u, id, content, logOk) ==
    LET found == getDocument(id)
        row == CHOOSE d \in found : TRUE
        document == updateDocumentContent(row, content)
    IN  /\ (isAuthenticated(u) /\ found # {}) => Len(log) < MaxLog
        /\ UNCHANGED <<page, users, sessions, folders, shares, disk, nextFile, now, pending>>
        /\ IF ~isAuthenticated(u)
           THEN resp' = Reply("content", 401, NoId, NoId) /\ UNCHANGED <<docs, log>>
           ELSE IF found = {}
           THEN resp' = Reply("content", 404, u, id) /\ UNCHANGED <<docs, log>>
           ELSE /\ docs' = (docs \ {row}) \cup {document}
                /\ log' = IF logOk
                          THEN createActivityLog(log,
                                 LogRow(u, "edit_document", "document", id))
                          ELSE log
                /\ resp' = IF logOk
                           THEN Respond("content", 200, u, id, document, row, {}, FALSE)
                           ELSE Respond("content", 500, u, id, NoDoc, NoDoc, {}, TRUE)

----------------------------------------------------------------------------
(* Document registry: the list of documents *)

RECURSIVE like(_, _)
\* the LIKE operator of SQLite: % stands for any characters, _ for any one
\* character, and letters match without regard to case
like(s, pattern) ==
    IF pattern = <<>> THEN s = <<>>
    ELSE IF Head(pattern) = "%"
    THEN like(s, Tail(pattern)) \/ (s # <<>> /\ like(Tail(s), pattern))
    ELSE IF s = <<>> THEN FALSE
    ELSE /\ Head(pattern) = "_" \/ toLowerChar(Head(pattern)) = toLowerChar(Head(s))
         /\ like(Tail(s), Tail(pattern))

\* storage.searchDocuments (the rows; their order is left out)
searchDocuments(query) ==
    {d \in docs : \/ like(d.name, <<"%">> \o query \o <<"%">>)
                  \/ like(d.originalName, <<"%">> \o query \o <<"%">>)}

\* storage.getDocumentsByCategory and storage.getAllDocuments
getDocumentsByCategory(category) == {d \in docs : d.category = category}
getAllDocuments == docs

\* GET /api/documents.  resp.arg is the query, resp.list the rows returned.
ListDocuments(u, search, category, logOk) ==
    LET documents == IF Truthy(search) THEN searchDocuments(search)
                     ELSE IF Truthy(category) THEN getDocumentsByCategory(category)
                     ELSE getAllDocuments
    IN  /\ isAuthenticated(u) => Len(log) < MaxLog
        /\ UNCHANGED <<page, users, sessions, folders, docs, shares, disk, nextFile, now, pending>>
        /\ IF ~isAuthenticated(u)
           THEN resp' = Reply("documents", 401, NoId, NoId) /\ UNCHANGED log
           ELSE /\ log' = IF logOk
                          THEN createActivityLog(log, LogRow(u, "view", "document", NoId))
                          ELSE log
                /\ resp' = IF logOk
                           THEN [Respond("documents", 200, u, NoId, NoDoc, NoDoc,
                                         documents, FALSE)
                                   EXCEPT !.arg = <<search, category>>]
                           ELSE Respond("documents", 500, u, NoId, NoDoc, NoDoc, {}, TRUE)

----------------------------------------------------------------------------
(* Document registry: create from a template *)

\* the type code of POST /api/documents/create
typeCode(documentType) == replace(toUpperCase(documentType), "_", <<"-">>)

\* the document code of POST /api/documents/create
documentCodeOf(documentType, year, count) ==
    typeCode(documentType) \o <<"-">> \o toString(year)
        \o <<"-">> \o padStart(toString(count), 3, "0")

\* Date.prototype.toLocaleDateString of the clock's time: the day
toLocaleDateString(t) == <<"d","a","y"," ">> \o toString(t)

S_cell0 == <<"c","e","l","l","_","0">>
S_cell1 == <<"c","e","l","l","_","1">>
S_cell4 == <<"c","e","l","l","_","4">>
S_cell5 == <<"c","e","l","l","_","5">>
S_cell8 == <<"c","e","l","l","_","8">>
S_cell9 == <<"c","e","l","l","_","9">>
S_DocumentTitle == <<"D","o","c","u","m","e","n","t"," ","T","i","t","l","e">>
S_CreatedDate == <<"C","r","e","a","t","e","d"," ","D","a","t","e">>
S_DocumentCode == <<"D","o","c","u","m","e","n","t"," ","C","o","d","e">>
S_This == <<"T","h","i","s"," ">>
S_documentWasCreatedOn ==
    <<" ","d","o","c","u","m","e","n","t"," ","w","a","s"," ","c","r","e","a","t","e","d"," ","o","n"," ">>

\* an initial content in which a presentation has a title and no slide
initialContentWithoutSlide(documentType, fileType, title, documentCode) ==
    IF fileType = S_word
    THEN [Content(title, UndefinedSlides) EXCEPT !.body =
             S_This \o replace(documentType, "_", <<" ">>) \o S_documentWasCreatedOn
                \o toLocaleDateString(now) \o <<".">>]
    ELSE IF fileType = S_excel
    THEN [Content(undefined, UndefinedSlides) EXCEPT !.cells =
             << <<S_cell0, S_DocumentTitle>>, <<S_cell1, title>>,
                <<S_cell4, S_CreatedDate>>, <<S_cell5, toLocaleDateString(now)>>,
                <<S_cell8, S_DocumentCode>>, <<S_cell9, documentCode>> >>]
    ELSE IF fileType = S_powerpoint THEN Content(title, UndefinedSlides)
    ELSE Content(undefined, UndefinedSlides)

\* initialContent of POST /api/documents/create, by file type
initialContent(documentType, fileType, title, documentCode) ==
    IF fileType = S_word
    THEN [Content(title, UndefinedSlides) EXCEPT !.body =
             S_This \o replace(documentType, "_", <<" ">>) \o S_documentWasCreatedOn
                \o toLocaleDateString(now) \o <<".">>]
    ELSE IF fileType = S_excel
    THEN [Content(undefined, UndefinedSlides) EXCEPT !.cells =
             << <<S_cell0, S_DocumentTitle>>, <<S_cell1, title>>,
                <<S_cell4, S_CreatedDate>>, <<S_cell5, toLocaleDateString(now)>>,
                <<S_cell8, S_DocumentCode>>, <<S_cell9, documentCode>> >>]
    ELSE IF fileType = S_powerpoint THEN Content(undefined, Slides(<<title>>))
    ELSE Content(undefined, UndefinedSlides)

\* POST /api/documents/create, to the await of getDocumentCount: the year,
\* the count and the code are computed
CreateRead(r, u, documentType, title, fileType, folderId) ==
    /\ pending[r] = Idle
    /\ UNCHANGED <<page, users, sessions, folders, docs, shares, log, disk, nextFile, now>>
    /\ IF ~isAuthenticated(u)
       THEN resp' = Reply("create", 401, NoId, NoId) /\ UNCHANGED pending
       ELSE /\ pending' = [pending EXCEPT ![r] =
                   [pc |-> "create", user |-> u, documentType |-> documentType,
                    title |-> title, fileType |-> fileType, folderId |-> folderId,
                    documentCode |-> documentCodeOf(documentType, getFullYear(now),
                                                    getDocumentCount(documentType) + 1)]]
            /\ UNCHANGED resp

\* POST /api/documents/create, from createDocument to the response
CreateInsert(r, logOk) ==
    LET q == pending[r]
        document == [id |-> NextDocId,
                     name |-> q.title,
                     originalName |-> q.title,
                     category |-> q.documentType,
                     fileType |-> q.fileType,
                     fileSize |-> 0,
                     filePath |-> S_templates \o q.documentCode,
                     folderId |-> q.folderId,
                     uploadedBy |-> q.user,
                     createdAt |-> now,
                     updatedAt |-> now,
                     documentCode |-> q.documentCode,
                     content |-> initialContent(q.documentType, q.fileType, q.title,
                                                 q.documentCode)]
    IN  /\ q.pc = "create"
        /\ Cardinality(docs) < MaxDocs /\ Len(log) < MaxLog
        /\ UNCHANGED <<page, users, sessions, folders, shares, disk, nextFile, now>>
        /\ pending' = [pending EXCEPT ![r] = Idle]
        /\ IF ~folderKeyHolds(q.folderId)
           THEN /\ resp' = Reply("create", 500, q.user, NoId)
                /\ UNCHANGED <<docs, log>>
           ELSE /\ docs' = createDocument(document)
                /\ log' = IF logOk
                          THEN createActivityLog(log,
                                 LogRow(q.user, "create_document", "document", document.id))
                          ELSE log
                /\ resp' = IF logOk
                           THEN Respond("create", 201, q.user, document.id, document,
                                        NoDoc, {}, FALSE)
                           ELSE Respond("create", 500, q.user, document.id, NoDoc,
                                        NoDoc, {}, TRUE)

----------------------------------------------------------------------------
(* Document registry: update the file of a document *)

\* a handler that answers 500 when the old file cannot be unlinked
UpdateBeginStoppingAtUnlinkFailure(r, u, id, file, category) ==
    LET stored == isAuthenticated(u) /\ fileFilter(file) /\ withinLimit(file)
        path == storedPath(file)
        found == getDocument(id)
        existingDocument == CHOOSE d \in found : TRUE
    IN  /\ pending[r] = Idle
        /\ stored => nextFile < MaxFiles
        /\ UNCHANGED <<page, users, sessions, folders, docs, shares, log, now>>
        /\ IF ~isAuthenticated(u)
           THEN /\ resp' = Reply("update", 401, NoId, NoId)
                /\ UNCHANGED <<disk, nextFile, pending>>
           ELSE IF ~stored
           THEN \* multer hands the error to the application's error handler
                /\ resp' = [Reply("update", uploadRejectedStatus, u, id) EXCEPT !.file = file]
                /\ UNCHANGED <<disk, nextFile, pending>>
           ELSE /\ nextFile' = nextFile + 1
                /\ IF found = {}
                   THEN /\ disk' = disk \cup {path}
                        /\ resp' = Reply("update", 404, u, id)
                        /\ UNCHANGED pending
                   ELSE IF existingDocument.filePath \notin disk
                   THEN /\ disk' = disk \cup {path}
                        /\ resp' = Reply("update", 500, u, id)
                        /\ UNCHANGED pending
                   ELSE
                        /\ disk' = (disk \cup {path}) \ {existingDocument.filePath}
                        /\ pending' = [pending EXCEPT ![r] =
                               [pc |-> "update", user |-> u, id |-> id,
                                existingDocument |-> existingDocument,
                                file |-> file, path |-> path, category |-> category,
                                unlinked |-> existingDocument.filePath \in disk]]
                        /\ UNCHANGED resp

\* PUT /api/documents/:id/update, to the await of updateDocument: multer has
\* stored the new file, the row is read and the old file is unlinked
UpdateBegin(r, u, id, file, category) ==
    LET stored == isAuthenticated(u) /\ fileFilter(file) /\ withinLimit(file)
        path == storedPath(file)
        found == getDocument(id)
        existingDocument == CHOOSE d \in found : TRUE
    IN  /\ pending[r] = Idle
        /\ stored => nextFile < MaxFiles
        /\ UNCHANGED <<page, users, sessions, folders, docs, shares, log, now>>
        /\ IF ~isAuthenticated(u)
           THEN /\ resp' = Reply("update", 401, NoId, NoId)
                /\ UNCHANGED <<disk, nextFile, pending>>
           ELSE IF ~stored
           THEN \* multer hands the error to the application's error handler
                /\ resp' = [Reply("update", uploadRejectedStatus, u, id) EXCEPT !.file = file]
                /\ UNCHANGED <<disk, nextFile, pending>>
           ELSE /\ nextFile' = nextFile + 1
                /\ IF found = {}
                   THEN /\ disk' = disk \cup {path}
                        /\ resp' = Reply("update", 404, u, id)
                        /\ UNCHANGED pending
                   ELSE \* fs.unlink of the old file; a failure is swallowed
                        /\ disk' = (disk \cup {path}) \ {existingDocument.filePath}
                        /\ pending' = [pending EXCEPT ![r] =
                               [pc |-> "update", user |-> u, id |-> id,
                                existingDocument |-> existingDocument,
                                file |-> file, path |-> path, category |-> category,
                                unlinked |-> existingDocument.filePath \in disk]]
                        /\ UNCHANGED resp

\* an updates object that carries the request's category as it came
fileUpdatesWithoutFallback(q) ==
    [name |-> removeExtension(q.file.originalname),
     originalName |-> q.file.originalname,
     filePath |-> q.path,
     fileSize |-> q.file.size,
     fileType |-> substring1(toLowerCase(extname(q.file.originalname))),
     category |-> q.category]

\* the updates object PUT /api/documents/:id/update hands to updateDocument
fileUpdates(q) ==
    [name |-> removeExtension(q.file.originalname),
     originalName |-> q.file.originalname,
     filePath |-> q.path,
     fileSize |-> q.file.size,
     fileType |-> substring1(toLowerCase(extname(q.file.originalname))),
     category |-> OrElse(q.category, q.existingDocument.category)]

\* storage.updateDocument: SET of the given columns and of updatedAt
updateDocument(row, updates) ==
    [row EXCEPT !.name = updates.name,
                !.originalName = updates.originalName,
                !.filePath = updates.filePath,
                !.fileSize = updates.fileSize,
                !.fileType = updates.fileType,
                !.category = updates.category,
                !.updatedAt = now]

\* the warning the handler wrote to the console when fs.unlink failed
S_couldNotDelete == <<"C","o","u","l","d"," ","n","o","t"," ","d","e","l","e","t","e">>

\* PUT /api/documents/:id/update, from updateDocument to the response.
\* resp.arg is the warning of the request, if it wrote one.
UpdateWrite(r, logOk) ==
    LET q == pending[r]
        found == getDocument(q.id)
        row == CHOOSE d \in found : TRUE
        updatedDocument == updateDocument(row, fileUpdates(q))
    IN  /\ q.pc = "update"
        /\ Len(log) < MaxLog
        /\ UNCHANGED <<page, users, sessions, folders, shares, disk, nextFile, now>>
        /\ pending' = [pending EXCEPT ![r] = Idle]
        /\ IF found = {}
           THEN /\ resp' = Reply("update", 500, q.user, q.id)
                /\ UNCHANGED <<docs, log>>
           ELSE /\ docs' = (docs \ {row}) \cup {updatedDocument}
                /\ log' = IF logOk
                          THEN createActivityLog(log,
                                 LogRow(q.user, "update", "document", q.id))
                          ELSE log
                /\ resp' = IF logOk
                           THEN [Respond("update", 200, q.user, q.id, updatedDocument,
                                         q.existingDocument, {}, FALSE)
                                   EXCEPT !.arg = IF q.unlinked THEN null
                                                  ELSE S_couldNotDelete]
                           ELSE Respond("update", 500, q.user, q.id, NoDoc,
                                        q.existingDocument, {}, TRUE)

\* PUT /api/documents/:id/update, from updateDocument to the response when
\* the UPDATE fails in the database: the handler's catch answers 500
UpdateWriteFails(r) ==
    LET q == pending[r]
    IN  /\ q.pc = "update"
        /\ UNCHANGED <<page, users, sessions, folders, docs, shares, log, disk, nextFile, now>>
        /\ pending' = [pending EXCEPT ![r] = Idle]
        /\ resp' = Reply("update", 500, q.user, q.id)

----------------------------------------------------------------------------
(* Document registry: share *)

\* GET /api/documents/:id
GetDocument(u, id, logOk) ==
    LET found == getDocument(id)
        document == CHOOSE d \in found : TRUE
    IN  /\ (isAuthenticated(u) /\ found # {}) => Len(log) < MaxLog
        /\ UNCHANGED <<page, users, sessions, folders, docs, shares, disk, nextFile, now, pending>>
        /\ IF ~isAuthenticated(u)
           THEN resp' = Reply("get", 401, NoId, NoId) /\ UNCHANGED log
           ELSE IF found = {}
           THEN resp' = Reply("get", 404, u, id) /\ UNCHANGED log
           ELSE /\ log' = IF logOk
                          THEN createActivityLog(log, LogRow(u, "view", "document", id))
                          ELSE log
                /\ resp' = IF logOk
                           THEN Respond("get", 200, u, id, document, NoDoc, {}, FALSE)
                           ELSE Respond("get", 500, u, id, NoDoc, NoDoc, {}, TRUE)

\* POST /api/documents/:id/share
Share(u, id, sharedWith, permission, logOk) ==
    LET found == getDocument(id)
        inserts == isAuthenticated(u) /\ found # {} /\ sharedWith \in DOMAIN users
        share == [id |-> Cardinality(shares) + 1, documentId |-> id, sharedBy |-> u,
                  sharedWith |-> sharedWith,
                  permission |-> IF permission = JUndefined THEN "view" ELSE permission]
    IN  /\ inserts => (Cardinality(shares) < MaxShares /\ Len(log) < MaxLog)
        /\ UNCHANGED <<page, users, sessions, folders, docs, disk, nextFile, now, pending>>
        /\ IF ~isAuthenticated(u)
           THEN resp' = Reply("share", 401, NoId, NoId) /\ UNCHANGED <<shares, log>>
           ELSE IF found = {}
           THEN resp' = Reply("share", 404, u, id) /\ UNCHANGED <<shares, log>>
           ELSE IF sharedWith \notin DOMAIN users
           THEN \* the shared_with foreign key
                resp' = Reply("share", 500, u, id) /\ UNCHANGED <<shares, log>>
           ELSE /\ shares' = shares \cup {share}
                /\ log' = IF logOk
                          THEN createActivityLog(log, LogRow(u, "share", "document", id))
                          ELSE log
                /\ resp' = IF logOk
                           THEN Reply("share", 201, u, id)
                           ELSE Respond("share", 500, u, id, NoDoc, NoDoc, {}, TRUE)

----------------------------------------------------------------------------
(* The clock *)

Tick ==
    /\ now < MaxClock
    /\ now' = now + 1
    /\ UNCHANGED <<page, users, sessions, folders, docs, shares, log, disk, nextFile, pending,
                   resp>>

----------------------------------------------------------------------------
(* Requests: the inputs the specifications draw from *)

\* a request without a session cookie
Anonymous == UserId(0)
Callers == UserIds \cup {Anonymous}

S_ab == <<"a","b">>
S_AB == <<"A","B">>
S_HR == <<"H","R">>
S_memo == <<"m","e","m","o">>
S_contract == <<"c","o","n","t","r","a","c","t">>
S_Q1 == <<"Q","1">>

FilePdf == [originalname |-> <<"a",".","p","d","f">>, mimetype |-> MimePdf, size |-> 2]
FileDocx == [originalname |-> <<"b",".","D","O","C","X">>, mimetype |-> MimeDocx, size |-> 3]
FileDoc == [originalname |-> <<"c",".","d","o","c">>, mimetype |-> MimeDoc, size |-> 4]
FileXls == [originalname |-> <<"d",".","x","l","s">>, mimetype |-> MimeXls, size |-> 5]
FileXlsx == [originalname |-> <<"e",".","x","l","s","x">>, mimetype |-> MimeXlsx, size |-> 6]
FilePpt == [originalname |-> <<"f",".","p","p","t">>, mimetype |-> MimePpt, size |-> 7]
FilePptx == [originalname |-> <<"g",".","p","p","t","x">>, mimetype |-> MimePptx, size |-> 8]

\* a file of a type that is not allowed, a file of the largest size allowed
\* and a file one MiB larger
MimeText == <<"t","e","x","t","/","p","l","a","i","n">>
FileText == [originalname |-> <<"h",".","t","x","t">>, mimetype |-> MimeText, size |-> 1]
FileAtLimit == [originalname |-> <<"i",".","p","d","f">>, mimetype |-> MimePdf,
                size |-> fileSizeLimitMiB]
FileOverLimit == [originalname |-> <<"j",".","p","d","f">>, mimetype |-> MimePdf,
                  size |-> fileSizeLimitMiB + 1]
AllowedFiles == {FilePdf, FileDoc, FileDocx, FileXls, FileXlsx, FilePpt, FilePptx,
                 FileAtLimit}
RefusedFiles == {FileText, FileOverLimit}

FolderIds == {FolderId(n) : n \in 0..MaxFolders}
DocIds == {DocId(n) : n \in 1..MaxDocs}

AllIdle == \A r \in Reqs : pending[r] = Idle

----------------------------------------------------------------------------
(* Folder creation and verify-access: the administrator creates folders,   *)
(* a signed-in user and an anonymous caller ask for access                 *)

InitAccess == InitCommon /\ sessions = UserIds

NextAccess ==
    \/ \E h \in {JTrue, JFalse, JNull, JUndefined}, c \in {S_ab, null, undefined} :
            CreateFolder(Admin, S_HR, h, c, TRUE)
    \/ \E u \in {Admin, Anonymous} : CreateFolder(u, undefined, JFalse, undefined, TRUE)
    \/ \E u \in {Clerk, Anonymous}, f \in FolderIds,
          c \in {S_ab, S_AB, <<>>, null, undefined} :
            VerifyAccess(u, f, c, TRUE)

SpecAccess == InitAccess /\ [][NextAccess]_vars

----------------------------------------------------------------------------
(* Listing the documents of a folder: folders are created with and without *)
(* a security code, documents are uploaded into them, callers verify or    *)
(* do not, and list                                                        *)

InitListing == InitCommon /\ sessions = UserIds

NextListing ==
    \/ \E h \in {JTrue, JFalse} : CreateFolder(Admin, S_HR, h, S_ab, TRUE)
    \/ \E u \in {Clerk, Anonymous}, f \in FolderIds, c \in {S_ab, S_AB} :
            VerifyAccess(u, f, c, TRUE)
    \/ \E f \in FolderIds \cup {FolderId(MaxFolders + 1)} :
            Upload(Admin, FilePdf, undefined, undefined, f, TRUE)
    \/ \E u \in Callers, f \in FolderIds : ListFolderDocuments(u, f)

SpecListing == InitListing /\ [][NextListing]_vars

----------------------------------------------------------------------------
(* Creation from a template with two requests in flight: the count read and
   the insert of one request interleave with those of the other *)

InitCreate == InitCommon /\ sessions = UserIds

NextCreate ==
    \/ Upload(Clerk, FilePdf, S_memo, undefined, NoId, TRUE)
    \/ \E r \in Reqs, documentType \in {S_memo, S_contract} :
            CreateRead(r, Clerk, documentType, S_Q1, S_word, NoId)
    \/ \E r \in Reqs : CreateInsert(r, TRUE)

SpecCreate == InitCreate /\ [][NextCreate]_vars

----------------------------------------------------------------------------
(* File updates, one at a time, while uploads, creations from a template and
   the clock go on between the read of the row and its update *)

InitUpdate == InitCommon /\ sessions = UserIds

NextUpdate ==
    \/ Upload(Clerk, FilePdf, undefined, undefined, NoId, TRUE)
    \/ CreateRead(2, Clerk, S_memo, S_Q1, S_word, FolderId(0))
    \/ CreateInsert(2, TRUE)
    \/ \E id \in DocIds, category \in {undefined, S_contract} :
            UpdateBegin(1, Clerk, id, FileDocx, category)
    \/ UpdateWrite(1, TRUE)
    \/ Tick

SpecUpdate == InitUpdate /\ [][NextUpdate]_vars

----------------------------------------------------------------------------
(* The document registry with one request at a time: a handler starts only
   when no other is suspended, and the clock moves between requests *)

InitSequence == InitCommon /\ sessions = UserIds

NextSequence ==
    \/ \E category \in {undefined, S_memo} :
            AllIdle /\ Upload(Clerk, FilePdf, category, undefined, NoId, TRUE)
    \/ \E documentType \in {S_memo, S_contract}, u \in {Clerk, Anonymous} :
            AllIdle /\ CreateRead(1, u, documentType, S_Q1, S_word, NoId)
    \/ CreateInsert(1, TRUE)
    \/ \E id \in DocIds, category \in {undefined, S_contract} :
            AllIdle /\ UpdateBegin(1, Clerk, id, FileDocx, category)
    \/ UpdateWrite(1, TRUE)
    \/ AllIdle /\ Tick

SpecSequence == InitSequence /\ [][NextSequence]_vars

----------------------------------------------------------------------------
(* The activity ledger under every operation that writes to it, the
   administrator's requests one at a time *)

InitLedger == InitCommon /\ sessions = {Admin}

NextLedger ==
    \/ Login("ZT-A1B-2C3")
    \/ Logout(Clerk)
    \/ AdminUpdateUser(Admin, Clerk, JFalse, JUndefined, TRUE)
    \/ CreateFolder(Admin, S_HR, JTrue, S_ab, TRUE)
    \/ \E f \in FolderIds : VerifyAccess(Admin, f, S_ab, TRUE)
    \/ Upload(Admin, FilePdf, undefined, undefined, NoId, TRUE)
    \/ Download(Admin, DocId(1), TRUE)
    \/ CreateRead(1, Admin, S_memo, S_Q1, S_word, NoId)
    \/ CreateInsert(1, TRUE)
    \/ UpdateBegin(1, Admin, DocId(1), FileDocx, undefined)
    \/ UpdateWrite(1, TRUE)
    \/ Share(Admin, DocId(1), Clerk, JUndefined, TRUE)

SpecLedger == InitLedger /\ [][NextLedger]_vars

----------------------------------------------------------------------------
(* The document operations with ledger inserts that may fail *)

InitFailure == InitCommon /\ sessions = {Admin}

NextFailure ==
    \/ \E logOk \in BOOLEAN : Upload(Admin, FilePdf, undefined, undefined, NoId, logOk)
    \/ \E logOk \in BOOLEAN : Download(Admin, DocId(1), logOk)
    \/ CreateRead(1, Admin, S_memo, S_Q1, S_word, NoId)
    \/ \E logOk \in BOOLEAN : CreateInsert(1, logOk)
    \/ UpdateBegin(1, Admin, DocId(1), FileDocx, undefined)
    \/ \E logOk \in BOOLEAN : UpdateWrite(1, logOk)

SpecFailure == InitFailure /\ [][NextFailure]_vars

----------------------------------------------------------------------------
(* Users and sessions: logins, logouts, registrations with two requests in
   flight, and the administration of users *)

\* login codes of requests and of generateLoginCode
CodeClerk == "ZT-A1B-2C3"
CodeClerkLower == "zt-a1b-2c3"
CodeFresh == "ZT-X9Y-8Z7"
CodeUuid == "ZT-1A2B3C4D"

InitLogin == InitCommon /\ sessions = {Admin}

\* logins and logouts while the administrator switches a user off and on
\* and registers users, one request at a time
NextLogin ==
    \/ \E code \in {CodeClerk, CodeClerkLower, CodeFresh, CodeUuid} : Login(code)
    \/ Logout(Clerk)
    \/ \E target \in {Clerk, UserId(3)}, isActive \in {JFalse, JTrue} :
            AdminUpdateUser(Admin, target, isActive, JUndefined, TRUE)
    \/ AllIdle /\ RegisterBegin(1, Admin, S_HR, JUndefined)
    \/ \E code \in {CodeClerk, CodeFresh} : RegisterCheck(1, code)
    \/ RegisterFallback(1, CodeUuid)
    \/ RegisterInsert(1, TRUE)

SpecLogin == InitLogin /\ [][NextLogin]_vars

InitRegister == InitCommon /\ sessions = {Admin}

\* two registrations in flight
NextRegister ==
    \/ \E r \in Reqs : RegisterBegin(r, Admin, S_HR, JUndefined)
    \/ \E r \in Reqs, code \in {CodeClerk, CodeFresh} : RegisterCheck(r, code)
    \/ \E r \in Reqs : RegisterFallback(r, CodeUuid)
    \/ \E r \in Reqs : RegisterInsert(r, TRUE)

SpecRegister == InitRegister /\ [][NextRegister]_vars

InitRoles == InitCommon /\ sessions = {Admin}

\* the administration of users, asked for by the administrator, by an
\* ordinary user and without a session
NextRoles ==
    \/ Login(CodeClerk)
    \/ \E u \in {Admin, Clerk, Anonymous}, role \in {JUndefined, "manager"} :
            RegisterBegin(1, u, S_HR, role)
    \/ RegisterCheck(1, CodeFresh)
    \/ RegisterInsert(1, TRUE)
    \/ \E u \in {Admin, Clerk, Anonymous},
          body \in {<<JFalse, JUndefined>>, <<JUndefined, "manager">>,
                    <<JUndefined, "super_admin">>} :
            AdminUpdateUser(u, Clerk, body[1], body[2], TRUE)
    \/ \E u \in {Admin, Clerk, Anonymous} : AdminListUsers(u)
    \/ \E u \in {Admin, Clerk, Anonymous}, limit \in {1, 50} : AdminActivityLogs(u, limit)

SpecRoles == InitRoles /\ [][NextRoles]_vars

----------------------------------------------------------------------------
(* Claims about the folder registry *)

\* the folder a verify-access response is about (folder rows never change)
VerifiedFolder == CHOOSE f \in folders : f.id = resp.target

VerifyAnswered ==
    resp.op = "verify" /\ resp.user # NoId /\ \E f \in folders : f.id = resp.target

\* C1, as claimed: for an existing folder and any supplied code, verify-access
\* succeeds exactly when hasSecurityCode is false, or hasSecurityCode is true
\* and the supplied code equals the stored code; otherwise it answers 401.
C1_VerifyAccessAsClaimed ==
    VerifyAnswered =>
        /\ resp.status \in {200, 401}
        /\ resp.status = 200 <=>
             \/ VerifiedFolder.hasSecurityCode = JFalse
             \/ /\ VerifiedFolder.hasSecurityCode = JTrue
                /\ VerifiedFolder.securityCode = resp.arg

\* C1, amended: for an existing folder and any supplied code, verify-access
\* succeeds exactly when hasSecurityCode is false or null, or hasSecurityCode
\* is true and the supplied code equals the stored code (letter case
\* included); otherwise it answers 401.
C1_VerifyAccess ==
    VerifyAnswered =>
        /\ resp.status \in {200, 401}
        /\ resp.status = 200 <=>
             \/ VerifiedFolder.hasSecurityCode \in {JFalse, JNull}
             \/ /\ VerifiedFolder.hasSecurityCode = JTrue
                /\ VerifiedFolder.securityCode = resp.arg

\* C1, witnessed: a folder stored with hasSecurityCode = null and a securityCode
\* let a caller in who supplied a different code
C1_Witness ==
    /\ VerifyAnswered
    /\ resp.status = 200
    /\ VerifiedFolder.hasSecurityCode = JNull
    /\ VerifiedFolder.securityCode = S_ab
    /\ resp.arg = S_AB

\* C2: a signed-in caller's request for the documents of a folder is answered
\* 200 with all documents whose folderId is that folder, whether or not the
\* caller ever passed verify-access for it.
C2_ListIgnoresVerification ==
    [][(resp'.tick # resp.tick /\ resp'.op = "list" /\ resp'.user # NoId) =>
          /\ resp'.status = 200
          /\ resp'.list = {d \in docs : d.folderId = resp'.target}]_vars

\* C2, witnessed: the documents of a folder with a security code, one of them
\* uploaded after the folder was created, were listed for a caller with no
\* successful verify-access for that folder in the ledger
C2_Witness ==
    /\ resp.op = "list" /\ resp.status = 200
    /\ resp.list # {}
    /\ resp.list = {d \in docs : d.folderId = resp.target}
    /\ \E f \in folders : f.id = resp.target /\ f.hasSecurityCode = JTrue
    /\ \A i \in 1..Len(log) :
          ~(log[i].action = "access" /\ log[i].userId = resp.user
              /\ log[i].resourceId = resp.target)

\* C3: every folder with hasSecurityCode = true has a securityCode that is
\* not null.
C3_SecurityCodePresent ==
    \A f \in folders : f.hasSecurityCode = JTrue => f.securityCode # null

----------------------------------------------------------------------------
(* Claims about the document registry *)

\* a step in which request r leaves PUT /api/documents/:id/update with 200
UpdateSucceeds(r) ==
    /\ pending[r].pc = "update" /\ pending'[r] = Idle
    /\ resp'.op = "update" /\ resp'.status = 200

C5_FileTypeClass == \A d \in docs : d.fileType \in FileTypes

\* the documents created from a template in category C in year Y, told by
\* the code they were given
CreatedFromTemplate(C, Y) ==
    {d \in docs : /\ d.documentCode # null
                  /\ startsWith(d.documentCode,
                                typeCode(C) \o <<"-">> \o toString(Y) \o <<"-">>)}

\* C6: with one request at a time, the Nth document created from a template
\* in category C in year Y receives the code <CODE(C)>-Y-00N, and no earlier
\* document carries that code.
C6_SequentialCodes ==
    [][(resp'.tick # resp.tick /\ resp'.op = "create" /\ resp'.status = 201) =>
          LET C == resp'.doc.category
              Y == getFullYear(resp'.doc.createdAt)
              N == Cardinality(CreatedFromTemplate(C, Y)) + 1
          IN  /\ resp'.doc.documentCode =
                    typeCode(C) \o <<"-">> \o toString(Y) \o <<"-">>
                       \o padStart(toString(N), 3, "0")
              /\ \A d \in docs : d.documentCode # resp'.doc.documentCode]_vars

\* a step in which request r of POST /api/documents/create reads the count
CreateReads(r) == pending[r] = Idle /\ pending'[r].pc = "create"

\* a step in which request r of POST /api/documents/create inserts its row
CreateInserts(r) ==
    pending[r].pc = "create" /\ pending'[r] = Idle /\ folderKeyHolds(pending[r].folderId)

\* C7: the count read of a creation counts the inserted rows only, so two
\* requests of one category that both read before either inserts compute the
\* same number; and the insert always adds a row with the code computed at
\* the read, whether or not a row carries that code already.
C7_ConcurrentCreateDuplicates ==
    [][\A r \in Reqs :
          /\ CreateReads(r) =>
               pending'[r].documentCode =
                  documentCodeOf(pending'[r].documentType, getFullYear(now),
                     Cardinality({d \in docs :
                                    d.category = pending'[r].documentType}) + 1)
          /\ CreateInserts(r) =>
               \E d \in docs' \ docs :
                  /\ docs' = docs \cup {d}
                  /\ d.documentCode = pending[r].documentCode
                  /\ Cardinality(docs') = Cardinality(docs) + 1]_vars

\* C7, witnessed: two documents created from a template carry the same code
C7_Witness ==
    \E d1, d2 \in docs :
       /\ d1.id # d2.id
       /\ d1.documentCode # null
       /\ d1.documentCode = d2.documentCode
       /\ d1.filePath = S_templates \o d1.documentCode
       /\ d2.filePath = S_templates \o d2.documentCode

----------------------------------------------------------------------------
(* Claims about the activity ledger *)

MutatingOps ==
    {"upload", "download", "create", "update", "share", "login", "logout",
     "verify", "adminUpdate"}

\* the action under which each operation is entered in the ledger
LedgerAction(op) ==
    CASE op = "create" -> "create_document"
      [] op = "verify" -> "access"
      [] op = "adminUpdate" -> "update_user"
      [] OTHER -> op

\* C8: every successfully completed mutating operation of a signed-in user
\* appends exactly one ledger row, whose action matches the operation, whose
\* userId is the acting user and whose resourceId is the resource involved;
\* verify-access on a folder without a security code included.
C8_OneLedgerRowPerOperation ==
    [][(/\ resp'.tick # resp.tick
        /\ resp'.op \in MutatingOps
        /\ resp'.status \in {200, 201}
        /\ resp'.user # NoId) =>
          /\ Len(log') = Len(log) + 1
          /\ SubSeq(log', 1, Len(log)) = log
          /\ log'[Len(log')].action = LedgerAction(resp'.op)
          /\ log'[Len(log')].userId = resp'.user
          /\ resp'.target # NoId => log'[Len(log')].resourceId = resp'.target]_vars

\* C9: the ledger is append-only: every step keeps every row that existed,
\* in its place and with all of its fields.
C9_LedgerAppendOnly ==
    [][Len(log') >= Len(log) /\ SubSeq(log', 1, Len(log)) = log]_vars

\* C9, witnessed: the ledger holds the rows of two different operations and
\* a third row after them
C9_Witness ==
    /\ Len(log) >= 3
    /\ log[1].action # log[2].action

\* C10: when the ledger insert of an operation fails, the caller still gets
\* the operation's success response, and the document row that upload, create
\* or update wrote remains.
C10_LedgerFailureTolerated ==
    resp.logFailed =>
        /\ resp.status \in {200, 201}
        /\ resp.op \in {"upload", "create", "update"} =>
              \E d \in docs : d.id = resp.target

----------------------------------------------------------------------------
(* Claims about users and sessions *)

\* a step that completes a request of the given operation
Answers(op) == resp'.tick # resp.tick /\ resp'.op = op

\* C11: a login succeeds (200, a session for that user) exactly when some
\* user holds exactly the supplied code and is active; otherwise it is
\* answered 401 and no session is established.
C11_LoginIffActiveCode ==
    [][Answers("login") =>
          LET code == resp'.arg[1]
              holders == {id \in DOMAIN users :
                            users[id].loginCode = code /\ users[id].isActive = TRUE}
          IN  IF holders # {}
              THEN /\ resp'.status = 200
                   /\ resp'.user \in holders
                   /\ sessions' = sessions \cup {resp'.user}
              ELSE /\ resp'.status = 401
                   /\ resp'.user = NoId
                   /\ sessions' = sessions]_vars

\* C11, witnessed: a user whom the administrator had updated signed in with
\* their code
C11_Witness ==
    /\ resp.op = "login" /\ resp.status = 200
    /\ resp.user = Clerk /\ resp.arg = <<CodeClerk>>
    /\ Clerk \in sessions
    /\ users[Clerk].isActive
    /\ \E i \in 1..Len(log) : log[i].action = "update_user" /\ log[i].resourceId = Clerk

\* the caller of the request just answered holds the role super_admin
CallerIsSuperAdmin ==
    /\ resp'.user \in sessions
    /\ users[resp'.user].role = "super_admin"

\* a step that creates a user row or changes the isActive or role of one
UserRowWritten ==
    \/ DOMAIN users' # DOMAIN users
    \/ \E id \in DOMAIN users :
          \/ users'[id].isActive # users[id].isActive
          \/ users'[id].role # users[id].role
          \/ users'[id].loginCode # users[id].loginCode

\* C12: register, admin PATCH, the user list and the global activity log
\* are served only to a session whose user holds the role super_admin when
\* the request arrives; every other caller is answered 401 or 403 and no user
\* row and no ledger row is created or changed.
C12_SuperAdminOnly ==
    [][ /\ \A op \in {"adminUpdate", "adminUsers", "adminLogs"} :
             Answers(op) =>
                IF CallerIsSuperAdmin
                THEN /\ resp'.status \notin {401, 403}
                     /\ (op = "adminUsers") => (resp'.list = DOMAIN users)
                     /\ (op = "adminLogs") =>
                          (/\ Len(resp'.list) <= Len(log)
                           /\ \A i \in 1..Len(resp'.list) :
                                 resp'.list[i] = log[Len(log) + 1 - i])
                ELSE /\ resp'.status = 403
                     /\ users' = users /\ log' = log
        /\ \A r \in Reqs :
             (pending[r] = Idle /\ pending'[r].pc = "generate") =>
                /\ pending'[r].user \in sessions
                /\ users[pending'[r].user].role = "super_admin"
        /\ (Answers("register") /\ pending' = pending) =>
                /\ ~CallerIsSuperAdmin
                /\ resp'.status = IF resp'.user = NoId THEN 401 ELSE 403
                /\ users' = users /\ log' = log
        /\ UserRowWritten =>
                \/ \E r \in Reqs : pending[r].pc = "insert" /\ pending'[r] = Idle
                \/ Answers("adminUpdate") /\ CallerIsSuperAdmin]_vars

\* C12, witnessed: a signed-in user without the role was refused a change of
\* their own role, and users were registered and updated by the administrator
C12_Witness ==
    /\ resp.op = "adminUpdate" /\ resp.status = 403
    /\ resp.user = Clerk /\ Clerk \in sessions
    /\ users[Clerk].role = "user"
    /\ \E i \in 1..Len(log) : log[i].action = "create_user" /\ log[i].userId = Admin

\* the users a registration created and no admin PATCH has touched since
RegisteredUntouched ==
    {id \in DOMAIN users :
        \E i \in 1..Len(log) :
           /\ log[i].action = "create_user" /\ log[i].resourceId = id
           /\ \A j \in (i + 1)..Len(log) :
                 ~(log[j].action = "update_user" /\ log[j].resourceId = id)}

\* C13: a successful register returns the login code of the user it created,
\* and a later login with the code of a registered user whom no admin PATCH
\* has touched since is answered 200 with that user's id.
C13_RegisterLoginRoundTrip ==
    [][ /\ (Answers("register") /\ resp'.status = 201) =>
              /\ resp'.target \in DOMAIN users' \ DOMAIN users
              /\ resp'.arg = <<users'[resp'.target].loginCode>>
        /\ Answers("login") =>
              \A id \in RegisteredUntouched :
                 resp'.arg = <<users[id].loginCode>> =>
                    resp'.status = 200 /\ resp'.user = id]_vars

\* C13, witnessed: a user the administrator registered signed in with the
\* code the registration chose
C13_Witness ==
    /\ resp.op = "login" /\ resp.status = 200
    /\ resp.user \in RegisteredUntouched
    /\ resp.user \in sessions
    /\ resp.arg = <<users[resp.user].loginCode>>

UniqueLoginCodes ==
    \A a, b \in DOMAIN users : a # b => users[a].loginCode # users[b].loginCode

\* C14: no two users ever share a loginCode, and a registration whose
\* generated code some user holds when its insert runs (a candidate another
\* registration took meanwhile, or the unchecked fallback) is answered with
\* a failure and creates no user.
C14_UniqueLoginCodes ==
    /\ []UniqueLoginCodes
    /\ [][\A r \in Reqs :
             (/\ pending[r].pc = "insert" /\ pending'[r] = Idle
              /\ \E id \in DOMAIN users : users[id].loginCode = pending[r].loginCode)
             => (resp'.status = 400 /\ users' = users /\ log' = log)]_vars

\* C14, witnessed: a registration was refused because a user registered
\* meanwhile holds the code generated for it
C14_Witness ==
    /\ resp.op = "register" /\ resp.status = 400
    /\ \E id \in DOMAIN users \ {Admin, Clerk} : <<users[id].loginCode>> = resp.arg

\* C15: every user's role is one of user and super_admin.
C15_TwoRoles ==
    \A id \in DOMAIN users : users[id].role \in {"user", "super_admin"}

----------------------------------------------------------------------------
(* Uploads and file updates with files of every allowed type, of a type    *)
(* that is not allowed, and of a size at and over the limit                *)

InitUpload == InitCommon /\ sessions = UserIds

NextUpload ==
    \/ \E file \in AllowedFiles \cup RefusedFiles :
            Upload(Clerk, file, undefined, undefined, NoId, TRUE)
    \/ Upload(Anonymous, FileText, undefined, undefined, NoId, TRUE)
    \/ \E file \in {FileXlsx} \cup RefusedFiles :
            UpdateBegin(1, Clerk, DocId(1), file, undefined)
    \/ UpdateWrite(1, TRUE)

SpecUpload == InitUpload /\ [][NextUpload]_vars

\* the class the file type of an upload of each allowed MIME type is to be
ClassOfMime ==
    (MimePdf :> S_pdf) @@ (MimeDoc :> S_word) @@ (MimeDocx :> S_word) @@
    (MimeXls :> S_excel) @@ (MimeXlsx :> S_excel) @@
    (MimePpt :> S_powerpoint) @@ (MimePptx :> S_powerpoint)

\* C16: every accepted upload creates a document whose fileSize is the size
\* of the uploaded file and whose fileType is the class of the file's MIME
\* type: pdf for PDF, word for DOC and DOCX, excel for XLS and XLSX,
\* powerpoint for PPT and PPTX.
C16_UploadSizeAndClass ==
    [][(Answers("upload") /\ resp'.status = 201) =>
          /\ resp'.doc \in docs' \ docs
          /\ resp'.doc.fileSize = resp'.file.size
          /\ resp'.file.mimetype \in DOMAIN ClassOfMime
          /\ resp'.doc.fileType = ClassOfMime[resp'.file.mimetype]]_vars

\* C16, witnessed: the registry holds an uploaded spreadsheet of class excel
\* and an uploaded presentation of class powerpoint, each with its size
C16_Witness ==
    /\ resp.op = "upload" /\ resp.status = 201
    /\ \E d1, d2 \in docs :
          /\ d1.originalName = FileXlsx.originalname
          /\ d1.fileType = S_excel /\ d1.fileSize = FileXlsx.size
          /\ d2.originalName = FilePptx.originalname
          /\ d2.fileType = S_powerpoint /\ d2.fileSize = FilePptx.size

\* a file outside the allow-list of seven types, or larger than 50 MiB
FileToReject(file) ==
    \/ file.mimetype \notin {MimePdf, MimeDoc, MimeDocx, MimeXls, MimeXlsx, MimePpt, MimePptx}
    \/ file.size > 50

\* C17: an upload or a file update by a signed-in user whose file is of a
\* type outside the allow-list, or larger than 50 MiB, is answered 400 and
\* writes no document row, no ledger row and no file; such a file is never
\* taken on by a file update.
C17_RejectedFileChangesNothing ==
    [][ /\ \A op \in {"upload", "update"} :
             (Answers(op) /\ resp'.user # NoId /\ resp'.file # NoFile
                 /\ FileToReject(resp'.file)) =>
                (resp'.status = 400 /\ docs' = docs /\ log' = log /\ disk' = disk)
        /\ \A r \in Reqs :
             (pending[r] = Idle /\ pending'[r].pc = "update") =>
                ~FileToReject(pending'[r].file) ]_vars

\* C17, witnessed: with a document in the registry and a row in the ledger,
\* an upload of a file over the limit was answered 400
C17_Witness ==
    /\ resp.op = "upload" /\ resp.status = 400 /\ resp.user = Clerk
    /\ resp.file = FileOverLimit
    /\ docs # {} /\ log # <<>>

----------------------------------------------------------------------------
(* Downloads of uploaded documents, of documents created from a template,  *)
(* of documents whose content was edited and of documents whose file is    *)
(* being replaced                                                          *)

InitDownload == InitCommon /\ sessions = UserIds

NextDownload ==
    \/ Upload(Clerk, FilePdf, undefined, undefined, NoId, TRUE)
    \/ \E fileType \in {S_word, S_powerpoint} :
            CreateRead(1, Clerk, S_memo, S_Q1, fileType, NoId)
    \/ CreateInsert(1, TRUE)
    \/ \E id \in DocIds : UpdateBegin(2, Clerk, id, FileDocx, undefined)
    \/ UpdateWrite(2, TRUE)
    \/ \E id \in DocIds,
          content \in {Content(S_Q1, StringSlides), Content(undefined, Slides(<<S_ab>>)),
                       NullContent} :
            UpdateContent(Clerk, id, content, TRUE)
    \/ \E u \in {Clerk, Anonymous}, id \in DocIds : Download(u, id, TRUE)

SpecDownload == InitDownload /\ [][NextDownload]_vars

\* C18: a download by a signed-in user of a document whose filePath starts
\* with templates/ is answered 200 with content that contains the document's
\* name, whether or not a file exists; a download of a document with a real
\* path whose file is missing is answered 404, and so is one of an unknown id.
C18_TemplateDownloadSucceeds ==
    [][(Answers("download") /\ resp'.user # NoId) =>
          LET found == getDocument(resp'.target)
          IN  /\ found = {} => resp'.status = 404
              /\ \A d \in found :
                   /\ startsWith(d.filePath, S_templates) =>
                        (resp'.status = 200 /\ includes(resp'.arg, d.name))
                   /\ (~startsWith(d.filePath, S_templates) /\ d.filePath \notin disk) =>
                        resp'.status = 404]_vars

\* C19: a request to an endpoint other than POST /api/login that carries no
\* authenticated session is answered 401 and changes no state.
C19_NoSessionAnswered401 ==
    [][(resp'.tick # resp.tick /\ resp'.op # "login" /\ resp'.user = NoId) =>
          /\ resp'.status = 401
          /\ UNCHANGED <<users, sessions, folders, docs, shares, log, disk, nextFile,
                         now, pending>>]_vars

----------------------------------------------------------------------------
(* The list of documents: uploads under two names and two categories, and  *)
(* queries by a search term or a category                                  *)

S_PDF == <<"P","D","F">>
S_anyDot == <<"_",".">>
S_docx == <<"d","o","c","x">>

InitSearch == InitCommon /\ sessions = UserIds

NextSearch ==
    \/ \E file \in {FilePdf, FileDocx}, category \in {undefined, S_contract},
          customName \in {undefined, S_Q1} :
            Upload(Clerk, file, category, customName, NoId, TRUE)
    \/ \E u \in {Clerk, Anonymous}, search \in {undefined, S_PDF, S_anyDot, S_docx},
          category \in {undefined, S_memos, S_contract} :
            ListDocuments(u, search, category, TRUE)

SpecSearch == InitSearch /\ [][NextSearch]_vars

\* s contains sub as a literal substring, without regard to case
ContainsIgnoringCase(s, sub) == includes(toLowerCase(s), toLowerCase(sub))

\* C20: GET /api/documents with a search term returns exactly the documents
\* whose name or originalName contains the term as a literal substring,
\* without regard to case; without a search term and with a category it
\* returns exactly the documents of that category.
C20_SearchIsLiteralSubstring ==
    [][(Answers("documents") /\ resp'.status = 200) =>
          LET search == resp'.arg[1]
              category == resp'.arg[2]
          IN  /\ Truthy(search) =>
                    resp'.list = {d \in docs : \/ ContainsIgnoringCase(d.name, search)
                                               \/ ContainsIgnoringCase(d.originalName, search)}
              /\ (~Truthy(search) /\ Truthy(category)) =>
                    resp'.list = {d \in docs : d.category = category}]_vars

----------------------------------------------------------------------------
(* Documents created from a template, of two types and of every file type, *)
(* at different times                                                      *)

S_follow_up == <<"f","o","l","l","o","w","_","u","p">>

InitTemplate == InitCommon /\ sessions = UserIds

NextTemplate ==
    \/ \E request \in {<<S_memo, S_Q1, S_word>>, <<S_memo, S_HR, S_excel>>,
                       <<S_follow_up, S_Q1, S_powerpoint>>, <<S_follow_up, S_HR, S_pdf>>} :
            CreateRead(1, Clerk, request[1], request[2], request[3], NoId)
    \/ CreateInsert(1, TRUE)
    \/ Tick

SpecTemplate == InitTemplate /\ [][NextTemplate]_vars

\* the value of a cell of a cell map (the empty string when it has none)
CellValue(cells, cell) ==
    IF \E i \in 1..Len(cells) : cells[i][1] = cell
    THEN cells[CHOOSE i \in 1..Len(cells) : cells[i][1] = cell][2]
    ELSE <<>>

\* C21: a successful creation from a template stores a document with
\* fileSize 0, filePath templates/ followed by its own code and the request's
\* type as category; its content has, for word, the request's title and a
\* body; for excel, a cell map with the title, the date and the code; for
\* powerpoint, exactly one slide, whose title is the request's title.
C21_TemplateDocumentShape ==
    [][\A r \in Reqs : (CreateInserts(r) /\ resp'.status = 201) =>
          LET q == pending[r]
              d == resp'.doc
          IN  /\ d \in docs' \ docs
              /\ d.fileSize = 0
              /\ d.filePath = S_templates \o d.documentCode
              /\ d.category = q.documentType
              /\ q.fileType = S_word =>
                    (d.content.title = q.title /\ Truthy(d.content.body))
              /\ q.fileType = S_excel =>
                    /\ CellValue(d.content.cells, S_cell1) = q.title
                    /\ CellValue(d.content.cells, S_cell5) = toLocaleDateString(now)
                    /\ CellValue(d.content.cells, S_cell9) = d.documentCode
              /\ q.fileType = S_powerpoint =>
                    /\ d.content.slides.kind = "array"
                    /\ d.content.slides.items = <<q.title>>]_vars

\* C21, witnessed: the registry holds a spreadsheet and a presentation created
\* from a template at a later time, and the last creation was answered 201
C21_Witness ==
    /\ resp.op = "create" /\ resp.status = 201 /\ now > 0
    /\ resp.doc \in docs /\ resp.doc.fileSize = 0
    /\ resp.doc.content.slides = Slides(<<resp.doc.name>>)
    /\ \E d \in docs : /\ d.fileType = S_excel
                        /\ d.filePath = S_templates \o d.documentCode
                        /\ CellValue(d.content.cells, S_cell9) = d.documentCode

----------------------------------------------------------------------------
(* Two registrations in flight whose generateLoginCode loops keep running: *)
(* a lookup that was awaited returns and the loop goes on                  *)

SpecGenerate ==
    /\ InitRegister /\ [][NextRegister]_vars
    /\ \A r \in Reqs :
          /\ WF_vars(\E code \in {CodeClerk, CodeFresh} : RegisterCheck(r, code))
          /\ WF_vars(RegisterFallback(r, CodeUuid))

\* the collision checks a running generateLoginCode has made are at most 10
AttemptsBounded ==
    \A r \in Reqs : pending[r].pc = "generate" => pending[r].attempts \in 0..10

\* C22: generateLoginCode makes at most 10 collision checks and terminates:
\* a check either finds its candidate held by a user and counts one more
\* attempt, or returns the candidate, which no user holds at that time;
\* after 10 collisions the fallback code is returned without a check.
C22_GenerateLoginCodeTerminates ==
    /\ []AttemptsBounded
    /\ [][\A r \in Reqs :
            (pending[r].pc = "generate" /\ pending'[r] # pending[r]) =>
               \/ /\ pending[r].attempts < 10
                  /\ pending'[r].pc = "generate"
                  /\ pending'[r].attempts = pending[r].attempts + 1
               \/ /\ pending[r].attempts < 10
                  /\ pending'[r].pc = "insert"
                  /\ getUserByLoginCode(pending'[r].loginCode) = {}
               \/ /\ pending[r].attempts = 10
                  /\ pending'[r].pc = "insert"]_vars
    /\ \A r \in Reqs : (pending[r].pc = "generate") ~> (pending[r].pc = "insert")

\* C22, witnessed: after 10 collisions a registration got the fallback code,
\* which a user holds already
C22_Witness ==
    \E r \in Reqs :
       /\ pending[r].pc = "insert"
       /\ pending[r].loginCode = CodeUuid
       /\ getUserByLoginCode(CodeUuid) # {}

----------------------------------------------------------------------------
(* File updates, two of them in flight, of an uploaded document and of a   *)
(* document created from a template                                       *)

InitReplace == InitCommon /\ sessions = UserIds

NextReplace ==
    \/ Upload(Clerk, FilePdf, undefined, undefined, NoId, TRUE)
    \/ CreateRead(1, Clerk, S_memo, S_Q1, S_word, NoId)
    \/ CreateInsert(1, TRUE)
    \/ \E r \in Reqs, id \in DocIds, file \in {FileDocx, FileText} :
            UpdateBegin(r, Clerk, id, file, undefined)
    \/ \E r \in Reqs : UpdateWrite(r, TRUE)

SpecReplace == InitReplace /\ [][NextReplace]_vars

\* C23: a file update whose deletion of the previous file failed goes on:
\* the request of a signed-in user for an existing document is suspended at
\* the row update and not answered before it, and when it completes the row
\* names the new file, the answer is 200 with the updated document and
\* exactly one update row is appended to the ledger.
C23_UnlinkFailureSwallowed ==
    [][ /\ \A r \in Reqs :
             (pending[r].pc = "update" /\ pending'[r] = Idle /\ ~pending[r].unlinked) =>
                /\ resp'.op = "update" /\ resp'.status = 200
                /\ resp'.doc \in docs' /\ resp'.doc.id = pending[r].id
                /\ resp'.doc.filePath = pending[r].path
                /\ log' = Append(log, LogRow(pending[r].user, "update", "document",
                                             pending[r].id))
        /\ (Answers("update") /\ resp'.user # NoId /\ resp'.file = NoFile
               /\ getDocument(resp'.target) # {}) =>
                \E r \in Reqs : pending[r].pc = "update" /\ pending'[r] = Idle ]_vars

\* C23, witnessed: the file of a document created from a template was
\* updated, and so was one whose previous file was missing already
C23_Witness ==
    /\ resp.op = "update" /\ resp.status = 200 /\ resp.arg = S_couldNotDelete
    /\ ~startsWith(resp.before.filePath, S_templates)
    /\ resp.doc \in docs /\ resp.doc.filePath \in disk
    /\ \E d \in docs : d.documentCode # null /\ d.filePath \in disk

----------------------------------------------------------------------------
(* File updates, two of them in flight, whose row update can fail, and     *)
(* downloads between their steps                                           *)

InitStale == InitCommon /\ sessions = UserIds

NextStale ==
    \/ Upload(Clerk, FilePdf, undefined, undefined, NoId, TRUE)
    \/ \E r \in Reqs : UpdateBegin(r, Clerk, DocId(1), FileDocx, undefined)
    \/ \E r \in Reqs : UpdateWrite(r, TRUE)
    \/ \E r \in Reqs : UpdateWriteFails(r)
    \/ Download(Clerk, DocId(1), TRUE)

SpecStale == InitStale /\ [][NextStale]_vars

\* request r of a file update is suspended in this step / completes in it
UpdateBegins(r) == pending[r] = Idle /\ pending'[r].pc = "update"
UpdateCompletes(r) == pending[r].pc = "update" /\ pending'[r] = Idle

\* C24: a file update deletes the old file before it updates the row: when
\* it is suspended the row still names the old file, which is gone; if the
\* row update then fails nothing is restored; a download that reads a row of
\* an uploaded document whose file is gone is answered 404; and an update
\* that completes leaves the row naming its own new file, so that of two
\* updates of one document one new file is named by no row.
C24_DeleteBeforeRowUpdate ==
    [][ /\ \A r \in Reqs :
             /\ UpdateBegins(r) =>
                   /\ docs' = docs
                   /\ pending'[r].existingDocument \in docs'
                   /\ pending'[r].existingDocument.filePath \notin disk'
                   /\ pending'[r].path \in disk'
             /\ (UpdateCompletes(r) /\ resp'.status = 500) =>
                   (docs' = docs /\ disk' = disk)
             /\ (UpdateCompletes(r) /\ resp'.status = 200) =>
                   /\ disk' = disk
                   /\ \A d \in docs' : d.id = pending[r].id => d.filePath = pending[r].path
                   /\ \A d \in docs' : d.id # pending[r].id => d \in docs
        /\ (Answers("download") /\ resp'.user # NoId) =>
             \A d \in getDocument(resp'.target) :
                (~startsWith(d.filePath, S_templates) /\ d.filePath \notin disk) =>
                   resp'.status = 404 ]_vars

\* C24, witnessed: two file updates of one uploaded document have both
\* completed, the old file is gone, and of the two new files one is named by
\* the row and the other by no row
C24_Witness ==
    /\ AllIdle /\ resp.op = "update" /\ resp.status = 200
    /\ resp.arg = S_couldNotDelete
    /\ resp.before.filePath \notin disk
    /\ resp.doc \in docs /\ resp.doc.filePath \in disk
    /\ \E path \in disk : path # resp.doc.filePath /\ \A d \in docs : d.filePath # path
    /\ Len(log) = 3

----------------------------------------------------------------------------
(* The client's folder page (FolderPage).  page.verifyCalls are the folders *)
(* a verify-access request was sent for, page.verified those a              *)
(* verify-access request succeeded for, page.documentsRequests the folders  *)
(* of the documents requests the page issued, in the order of issue.        *)

server == <<users, sessions, folders, docs, shares, log, disk, nextFile, now, pending, resp>>

\* the documents query fetches: GET /api/folders/:id/documents is issued
issueDocumentsRequest(p) ==
    [p EXCEPT !.documentsRequests = Append(@, p.folderId)]

\* the route /folders/:folderId renders FolderPage with its initial state
PageMount(folderId) ==
    /\ ~page.mounted
    /\ page' = [NoPage EXCEPT !.mounted = TRUE, !.folderId = folderId]
    /\ UNCHANGED server

\* the folder query resolves and the effect "check folder access on load"
\* runs: the dialog opens for a folder with a security code, access is
\* taken as verified for a folder without one, which enables the documents
\* query
PageFolderLoaded(u) ==
    LET found == getFolder(page.folderId)
        folder == CHOOSE f \in found : TRUE
        loaded == [page EXCEPT !.hasSecurityCode = folder.hasSecurityCode]
    IN  /\ page.mounted /\ page.hasSecurityCode = JUndefined
        /\ isAuthenticated(u) /\ found # {}
        /\ page' = IF TruthyBool(folder.hasSecurityCode)
                   THEN [loaded EXCEPT !.showSecurityDialog = TRUE]
                   ELSE issueDocumentsRequest([loaded EXCEPT !.isAccessVerified = TRUE])
        /\ UNCHANGED server

\* Cancel, or onOpenChange(false), in the security dialog
PageDismissDialog ==
    /\ page.mounted /\ page.showSecurityDialog
    /\ page' = [page EXCEPT !.showSecurityDialog = FALSE]
    /\ UNCHANGED server

\* "Access Folder" in the security dialog: verifyAccessMutation.mutate
PageSubmitCode(securityCode) ==
    /\ page.mounted /\ page.showSecurityDialog
    /\ securityCode # <<>> /\ ~page.verifying
    /\ page' = [page EXCEPT !.securityCode = securityCode, !.verifying = TRUE,
                            !.sentAt = resp.tick,
                            !.verifyCalls = @ \cup {page.folderId}]
    /\ UNCHANGED server

\* the response to the verify-access request arrives: onSuccess, onError
PageVerifyReturned ==
    /\ page.mounted /\ page.verifying
    /\ resp.tick # page.sentAt /\ resp.op = "verify"
    /\ page' = IF resp.status = 200
               THEN LET granted == [page EXCEPT !.verifying = FALSE,
                                                !.isAccessVerified = TRUE,
                                                !.showSecurityDialog = FALSE,
                                                !.verified = @ \cup {page.folderId}]
                    IN  IF page.isAccessVerified THEN granted
                        ELSE issueDocumentsRequest(granted)
               ELSE [page EXCEPT !.verifying = FALSE]
    /\ UNCHANGED server

\* the form of the DocumentCreator in the header of the page is submitted
PageCreatorSubmit ==
    /\ page.mounted /\ page.hasSecurityCode # JUndefined
    /\ ~page.showSecurityDialog /\ ~page.creating
    /\ page' = [page EXCEPT !.creating = TRUE, !.sentAt = resp.tick]
    /\ UNCHANGED server

\* the response to the create request arrives.  onSuccess invalidates the
\* documents query, which fetches when it is enabled, calls
\* onDocumentCreated, the page's refetchDocuments, which fetches whether or
\* not the query is enabled, and leaves for the editor; onError shows a toast
PageCreatorReturned ==
    /\ page.mounted /\ page.creating
    /\ resp.tick # page.sentAt /\ resp.op = "create"
    /\ page' = IF resp.status = 201
               THEN [issueDocumentsRequest(page) EXCEPT !.creating = FALSE,
                                                        !.mounted = FALSE]
               ELSE [page EXCEPT !.creating = FALSE]
    /\ UNCHANGED server

\* the administrator creates a folder with a security code; the clerk opens
\* folder pages, answers or dismisses the dialog and creates documents.  One
\* request of the page is in flight at a time.
InitPage == InitCommon /\ sessions = UserIds

NextPage ==
    \/ /\ ~page.verifying /\ ~page.creating
       /\ CreateFolder(Admin, S_HR, JTrue, S_ab, TRUE)
    \/ \E f \in FolderIds : PageMount(f)
    \/ PageFolderLoaded(Clerk)
    \/ PageDismissDialog
    \/ \E c \in {S_ab, S_AB} : ~page.creating /\ PageSubmitCode(c)
    \/ /\ page.verifying /\ resp.tick = page.sentAt
       /\ VerifyAccess(Clerk, page.folderId, page.securityCode, TRUE)
    \/ PageVerifyReturned
    \/ ~page.verifying /\ PageCreatorSubmit
    \/ /\ page.creating /\ resp.tick = page.sentAt
       /\ CreateRead(1, Clerk, S_memo, S_Q1, S_word, page.folderId)
    \/ CreateInsert(1, TRUE)
    \/ PageCreatorReturned

SpecPage == InitPage /\ [][NextPage]_vars

\* C25: the folder page issues the documents request of a folder with a
\* security code only after a verify-access call for that folder has
\* succeeded, and that of a folder without one without any verify-access call
C25_DocumentsOnlyAfterVerifiedAccess ==
    [][Len(page'.documentsRequests) > Len(page.documentsRequests) =>
         LET folder == CHOOSE f \in getFolder(page.folderId) : TRUE
         IN  IF TruthyBool(folder.hasSecurityCode)
             THEN page.folderId \in page'.verified
             ELSE page.folderId \notin page'.verifyCalls]_vars

----------------------------------------------------------------------------
(* verify-access and the requests after it: the administrator creates      *)
(* folders and reads the ledger, a signed-in user and an anonymous caller  *)
(* ask for access and list the documents of a folder                       *)

InitVerify == InitCommon /\ sessions = UserIds

NextVerify ==
    \/ \E h \in {JTrue, JFalse} : CreateFolder(Admin, S_HR, h, S_ab, TRUE)
    \/ \E u \in {Clerk, Anonymous}, f \in FolderIds, c \in {S_ab, S_AB, undefined} :
            VerifyAccess(u, f, c, TRUE)
    \/ \E u \in {Clerk, Anonymous}, f \in FolderIds : ListFolderDocuments(u, f)
    \/ \E u \in {Admin, Clerk}, limit \in {1, 50} : AdminActivityLogs(u, limit)

SpecVerify == InitVerify /\ [][NextVerify]_vars

\* what verify-access may do to the ledger: nothing, or append one row
AppendsAtMostOneRow ==
    \/ log' = log
    \/ Len(log') = Len(log) + 1 /\ SubSeq(log', 1, Len(log)) = log

----------------------------------------------------------------------------
(* The document creator's type codes and the codes the server generates *)

S_press_release == <<"p","r","e","s","s","_","r","e","l","e","a","s","e">>
S_internal_letter == <<"i","n","t","e","r","n","a","l","_","l","e","t","t","e","r">>
S_external_letter == <<"e","x","t","e","r","n","a","l","_","l","e","t","t","e","r">>
S_report == <<"r","e","p","o","r","t">>

\* documentTypeOptions of the document creator: the code of each value, which
\* the preview shows as `${code}-2024-XXX`
documentTypeOptions ==
    (S_press_release :> <<"P","R">>) @@
    (S_memo :> <<"M","E","M","O">>) @@
    (S_internal_letter :> <<"I","L">>) @@
    (S_external_letter :> <<"E","L">>) @@
    (S_contract :> <<"C","O","N">>) @@
    (S_follow_up :> <<"F","U">>) @@
    (S_report :> <<"R","P","T">>)

\* a signed-in user creates documents of each of the seven types
InitCodes == InitCommon /\ sessions = UserIds

NextCodes ==
    \/ \E documentType \in DOMAIN documentTypeOptions :
            CreateRead(1, Clerk, documentType, S_Q1, S_word, NoId)
    \/ CreateInsert(1, TRUE)
    \/ Tick

SpecCodes == InitCodes /\ [][NextCodes]_vars

\* the part of a documentCode before its "-<year>-<count>" tail of a
\* four-digit year and a three-digit count
CodePrefix(documentCode) == SubSeq(documentCode, 1, Len(documentCode) - 9)

\* C27: the prefix of the documentCode the server generates for a document
\* of one of the creator's seven types is the type code the creator shows
C27_CodePrefixIsCreatorCode ==
    (resp.op = "create" /\ resp.status = 201) =>
        CodePrefix(resp.doc.documentCode) = documentTypeOptions[resp.doc.category]

----------------------------------------------------------------------------
(* Sessions of users who are switched off: a user logs in, the             *)
(* administrator switches the user off and on, and requests arrive in the  *)
(* user's session and without a session                                    *)

InitSession == InitCommon /\ sessions = {Admin}

NextSession ==
    \/ \E code \in {CodeClerk, CodeFresh} : Login(code)
    \/ \E isActive \in {JFalse, JTrue} :
            AdminUpdateUser(Admin, Clerk, isActive, JUndefined, TRUE)
    \/ \E u \in {Clerk, Anonymous} : Upload(u, FilePdf, S_memo, undefined, NoId, TRUE)
    \/ \E u \in {Clerk, Anonymous} : ListFolderDocuments(u, FolderId(0))
    \/ Tick

SpecSession == InitSession /\ [][NextSession]_vars

\* C28: a login with the code of a user whose isActive is false is refused
\* and opens no session; switching a user off ends no session; a request
\* in the session of a user who is switched off is treated as
\* authenticated: an upload stores its document, a listing is answered
C28_DeactivationKeepsSession ==
    [][ /\ \A code \in {CodeClerk, CodeFresh} :
              (Login(code) /\ \A id \in getUserByLoginCode(code) : ~users[id].isActive)
                  => resp'.status = 401 /\ sessions' = sessions
        /\ Answers("adminUpdate") => sessions' = sessions
        /\ \A u \in UserIds :
              (u \in sessions /\ ~users[u].isActive) =>
                  /\ Upload(u, FilePdf, S_memo, undefined, NoId, TRUE) =>
                        /\ resp'.status = 201 /\ resp'.user = u
                        /\ \E d \in docs' \ docs : d.uploadedBy = u
                  /\ ListFolderDocuments(u, FolderId(0)) =>
                        resp'.status = 200 /\ resp'.user = u ]_vars

\* the user was switched off while holding a session and has uploaded a
\* document in that session since
C28_Witness ==
    /\ Clerk \in sessions /\ ~users[Clerk].isActive
    /\ resp.op = "upload" /\ resp.status = 201 /\ resp.user = Clerk
    /\ \E i \in 1..Len(log) : log[i].action = "update_user" /\ log[i].resourceId = Clerk
    /\ log[Len(log)].action = "upload"

----------------------------------------------------------------------------
(* Role changes under open sessions: the administrator and an ordinary     *)
(* user both hold a session, nobody logs in, roles are changed by PATCH    *)
(* and both ask for the admin endpoints and for a registration             *)

InitPromotion == InitCommon /\ sessions = UserIds

NextPromotion ==
    \/ \E u \in {Admin, Clerk}, target \in {Admin, Clerk}, role \in {"user", "super_admin"} :
            AdminUpdateUser(u, target, JUndefined, role, TRUE)
    \/ \E u \in {Admin, Clerk} : AdminListUsers(u)
    \/ \E u \in {Admin, Clerk} : AdminActivityLogs(u, 50)
    \/ \E u \in {Admin, Clerk} : RegisterBegin(1, u, S_HR, JUndefined)
    \/ RegisterCheck(1, CodeFresh)
    \/ RegisterInsert(1, TRUE)

SpecPromotion == InitPromotion /\ [][NextPromotion]_vars

\* C29: a PATCH by a super administrator stores the role and touches no
\* session; from then on, with no login in between, every admin endpoint
\* and the registration refuse the session of a user whose role is not
\* super_admin with 403 and accept the session of one whose role is
C29_RoleChangeNeedsNoLogin ==
    [][\A u \in {Admin, Clerk} :
          /\ \A target \in {Admin, Clerk}, role \in {"user", "super_admin"} :
                AdminUpdateUser(u, target, JUndefined, role, TRUE) =>
                    /\ sessions' = sessions
                    /\ IF users[u].role = "super_admin"
                       THEN resp'.status = 200 /\ users'[target].role = role
                       ELSE resp'.status = 403 /\ users' = users
          /\ AdminListUsers(u) =>
                resp'.status = IF users[u].role = "super_admin" THEN 200 ELSE 403
          /\ AdminActivityLogs(u, 50) =>
                resp'.status = IF users[u].role = "super_admin" THEN 200 ELSE 403
          /\ RegisterBegin(1, u, S_HR, JUndefined) =>
                IF users[u].role = "super_admin"
                THEN pending'[1].pc = "generate" /\ pending'[1].user = u
                ELSE Answers("register") /\ resp'.status = 403 /\ pending' = pending ]_vars

\* the user who was promoted has, in the session held before, taken the
\* administrator's role away, and the administrator's session, held since
\* before, is refused the listing of the users
C29_Witness ==
    /\ sessions = UserIds
    /\ \A i \in 1..Len(log) : log[i].action # "login"
    /\ \E i \in 1..Len(log) : log[i] = LogRow(Clerk, "update_user", "user", Admin)
    /\ users[Clerk].role = "super_admin" /\ users[Admin].role = "user"
    /\ resp.op = "adminUsers" /\ resp.status = 403 /\ resp.user = Admin

----------------------------------------------------------------------------
(* Refused operations: logins with an unknown code and with the code of a  *)
(* user who is switched off, verify-access with a wrong code, and requests *)
(* for documents that exist and that do not                                *)

InitRefusal == InitCommon /\ sessions = {Admin}

NextRefusal ==
    \/ \E code \in {CodeClerk, CodeFresh} : Login(code)
    \/ AdminUpdateUser(Admin, Clerk, JFalse, JUndefined, TRUE)
    \/ CreateFolder(Admin, S_HR, JTrue, S_ab, TRUE)
    \/ \E c \in {S_ab, S_AB} : VerifyAccess(Admin, FolderId(1), c, TRUE)
    \/ Upload(Admin, FilePdf, S_memo, undefined, NoId, TRUE)
    \/ \E id \in {DocId(1), DocId(2)} : GetDocument(Admin, id, TRUE)
    \/ Download(Admin, DocId(2), TRUE)
    \/ Share(Admin, DocId(2), Clerk, JUndefined, TRUE)
    \/ UpdateContent(Admin, DocId(2), Content(S_Q1, UndefinedSlides), TRUE)
    \/ \E id \in {DocId(1), DocId(2)} : UpdateBegin(1, Admin, id, FileDocx, undefined)
    \/ UpdateWrite(1, TRUE)

SpecRefusal == InitRefusal /\ [][NextRefusal]_vars

\* the rows of every table
Rows == <<users, sessions, folders, docs, shares, log>>

\* C30: a login with a code that no active user holds is answered 401,
\* updates no lastActive and writes no ledger row; a verify-access with a
\* wrong code is answered 401 and writes no ledger row; a get, download,
\* share, content update or file update of a document id that no row has is
\* answered 404 and creates or changes no row
C30_RefusalsChangeNoRow ==
    [][ /\ (Answers("login") /\ verifyLoginCode(resp'.arg[1]) = {}) =>
              resp'.status = 401 /\ UNCHANGED Rows
        /\ (/\ Answers("verify") /\ resp'.user \in UserIds
            /\ \E f \in folders : /\ f.id = resp'.target
                                  /\ TruthyBool(f.hasSecurityCode)
                                  /\ f.securityCode # resp'.arg) =>
              resp'.status = 401 /\ UNCHANGED Rows
        /\ \A op \in {"get", "download", "share", "content", "update"} :
              (Answers(op) /\ resp'.user \in UserIds /\ getDocument(resp'.target) = {}) =>
                  resp'.status = 404 /\ UNCHANGED Rows ]_vars

\* with a document stored and rows in the ledger, a file update of a
\* document id that no row has was answered 404 after the login of a user
\* who is switched off was refused
C30_Witness ==
    /\ docs # {} /\ Len(log) >= 2
    /\ ~users[Clerk].isActive /\ Clerk \notin sessions /\ users[Clerk].lastActive = -1
    /\ resp.op = "update" /\ resp.status = 404
    /\ getDocument(resp.target) = {}

====
